---- MODULE Spec2Model ----
(***************************************************************************)
(* pg_shared_plans: a cache of generic plans in shared memory.             *)
(*                                                                         *)
(* The model follows src/pg_shared_plans.c and src/pgsp_utility.c: the     *)
(* planner hook, the insertion protocol (pgsp_cache_plan,                  *)
(* pgsp_allocate_plan, pgsp_entry_alloc), capacity eviction                *)
(* (pgsp_entry_dealloc, pgsp_entry_remove), the invalidator                *)
(* (pgsp_ProcessUtility, pgsp_utility_do_lock, pgsp_evict_by_oid) and      *)
(* pg_shared_plans_reset_internal.  Every section of code that runs under  *)
(* one hold of pgsp->lock is one action; the steps a backend makes between *)
(* two holds are separate actions, so that other backends interleave       *)
(* exactly where the lock is not held.                                     *)
(*                                                                         *)
(* The reverse dependency index (pgsp_rdepend.c) is not part of the source *)
(* at hand; pgsp_entry_register_rdepend / pgsp_entry_unregister_rdepend    *)
(* are modelled from its specification: a map from {dbid, classid, oid}    *)
(* to a set of fingerprints capped at pgsp_rdepend_max.                    *)
(***************************************************************************)
EXTENDS Integers, Sequences, FiniteSets, TLC

(***************************************************************************)
(* Bounds of the model.                                                    *)
(***************************************************************************)
\* The largest value of pg_shared_plans.max that is explored.
MaxStore == 2
pgsp_rdepend_max == 1
MaxBypass == 1
MaxDiscard == 1
MaxLockers == 1
MaxDealloc == 1
MaxRequests == 6
\* The latest reading of the clock.
MaxResetTime == 1

\* The backends (worker processes) of the model.
Backends == {1, 2}

(***************************************************************************)
(* Program constants.                                                      *)
(***************************************************************************)
PLANCACHE_THRESHOLD == 5
\* pg_shared_plans.max of the eviction scenario: the least value of the setting.
ScenarioMax == 5
DefaultThreshold == 4
PGSP_USAGE_INIT == 100
ASSUMED_MEDIAN_INIT == 1000
USAGE_DECREASE_FACTOR == 99
USAGE_DEALLOC_PERCENT == 5
MinVictims == 10
\* pg_shared_plans.max of the scenario in which an eviction leaves an entry.
LargeMax == MinVictims + 1
pgsp_min_plantime == 10
SizeofOid == 4
SizeofRdependKey == 12

InvalidDsaPointer == "InvalidDsaPointer"
InvalidOid == 0
MyDatabaseId == 1

RELOID == "RELOID"
TYPEOID == "TYPEOID"
PROCOID == "PROCOID"
OTHERCACHE == "NAMESPACEOID"

PGSP_DISCARD == "PGSP_DISCARD"
PGSP_EVICT == "PGSP_EVICT"
PGSP_DISCARD_AND_LOCK == "PGSP_DISCARD_AND_LOCK"
PGSP_UNLOCK == "PGSP_UNLOCK"

(***************************************************************************)
(* The catalog objects and the queries of the model.                       *)
(***************************************************************************)
Rel1 == 16384
Rel2 == 16385
Type1 == 16400

\* GetSysCacheHashValue1: the catalog cache hash of an object id.
GetSysCacheHashValue1(oid) == (oid * 31 + 7) % 1000

\* pgspHashKey {userid, dbid, queryid, constid}
Key1 == [userid |-> InvalidOid, dbid |-> MyDatabaseId, queryid |-> 1, constid |-> 0]
Key2 == [userid |-> InvalidOid, dbid |-> MyDatabaseId, queryid |-> 2, constid |-> 0]
Keys == {Key1, Key2}

\* The queries of the eviction scenarios; q1 and q2 are Key1 and Key2.  There
\* is one query more than the largest store of the scenarios can hold.
Query(q) == [userid |-> InvalidOid, dbid |-> MyDatabaseId, queryid |-> q, constid |-> 0]
EvictionKeys == {Query(q) : q \in 1..(LargeMax + 1)}

\* pgspRdependKey {dbid, classid, oid}
RdependKey(dbid, classid, oid) == [dbid |-> dbid, classid |-> classid, oid |-> oid]
RdependKeys ==
    { RdependKey(MyDatabaseId, RELOID, Rel1),
      RdependKey(MyDatabaseId, RELOID, Rel2),
      RdependKey(MyDatabaseId, TYPEOID, GetSysCacheHashValue1(Type1)) }

\* PlanInvalItem {cacheId, hashValue}
InvalItem(cacheId, hashValue) == [cacheId |-> cacheId, hashValue |-> hashValue]

(***************************************************************************)
(* The host planner: the generic plans it can return for each query.  A    *)
(* plan is its serialized length, the relations of its range table (real   *)
(* relations, in order, duplicates included), its PlanInvalItems (those of *)
(* the query followed by those of the plan) and its estimated cost.        *)
(***************************************************************************)
PlanIds == {"planA", "planB", "planC", "planD"}

PlannedStmt(p) ==
    CASE p = "planA" ->
            [len |-> 40, rtable |-> <<Rel1, Rel1>>,
             invalItems |-> <<InvalItem(TYPEOID, GetSysCacheHashValue1(Type1))>>,
             generic_cost |-> 10]
      [] p = "planB" ->
            [len |-> 60, rtable |-> <<Rel1, Rel2>>,
             invalItems |-> <<>>,
             generic_cost |-> 30]
      [] p = "planD" ->
            [len |-> 30, rtable |-> <<>>,
             invalItems |-> <<>>,
             generic_cost |-> 10]
      [] OTHER ->
            [len |-> 50, rtable |-> <<Rel2>>,
             invalItems |-> <<InvalItem(OTHERCACHE, 5),
                              InvalItem(TYPEOID, GetSysCacheHashValue1(Type1)),
                              InvalItem(TYPEOID, GetSysCacheHashValue1(Type1))>>,
             generic_cost |-> 10]

\* standard_planner(generic_parse, ..., NULL): the generic plans of a query.
GenericPlans(key) ==
    IF key = Key1 THEN {"planA"}
    ELSE IF key = Key2 THEN {"planB", "planC"}
    ELSE {"planD"}

\* pgsp_cached_plan_cost(custom, true): the costs a custom plan can have.
CustomCosts == {20}

\* The custom plan costs of the arbitration scenarios: below and above the
\* cost of the generic plan.
ScenarioCosts == {5, 20, 35}

\* The planning times, in ms, the host planner can take.
PlanTimes == {5, 10}

\* The planning times of the arbitration scenarios: at and above
\* pg_shared_plans.min_plan_time.
ScenarioPlanTimes == {pgsp_min_plantime, pgsp_min_plantime + 5}


(***************************************************************************)
(* State.                                                                  *)
(*   pgsp_hash         the keys present in the shared hash table           *)
(*   entries           the pgspEntry of every key (EmptyEntry when absent) *)
(*   pgsp_rdepend      the reverse dependency index                        *)
(*   alloced_size, dealloc, cur_median_usage   pgspSharedState counters    *)
(*   stats_reset       pgspSharedState: the time of the last full reset    *)
(*   pgsp_threshold    the pg_shared_plans.threshold setting               *)
(*   pgsp_max          the pg_shared_plans.max setting                     *)
(*   pgsp_ro           per backend, pg_shared_plans.read_only: "off", "on" *)
(*                     (set in the session) or "local" (set on until the   *)
(*                     end of the transaction)                             *)
(*   lock_shared       the backends holding pgsp->lock in shared mode; an  *)
(*                     exclusive hold never spans two actions              *)
(*   pc, req, context, util                    per backend: position,      *)
(*                     locals of pgsp_planner_hook, the pgspDsaContext of  *)
(*                     an insertion, the pgspUtilityContext of a utility   *)
(*   nrequests         history: the number of plan requests completed      *)
(***************************************************************************)
VARIABLES pgsp_hash, entries, pgsp_rdepend, alloced_size, dealloc,
          cur_median_usage, stats_reset, pgsp_threshold, pgsp_max, pgsp_ro, lock_shared,
          pc, req, context, util, nrequests

shared == <<pgsp_hash, entries, pgsp_rdepend, alloced_size, dealloc,
           cur_median_usage, stats_reset>>
vars == <<pgsp_hash, entries, pgsp_rdepend, alloced_size, dealloc,
          cur_median_usage, stats_reset, pgsp_threshold, pgsp_max, pgsp_ro, lock_shared,
          pc, req, context, util, nrequests>>

\* A hash table slot that holds no entry.
EmptyEntry ==
    [plan |-> InvalidDsaPointer, len |-> 0,
     rels |-> <<>>, num_rels |-> 0,
     rdeps |-> <<>>, num_rdeps |-> 0,
     plantime |-> 0, generic_cost |-> 0,
     total_custom_cost |-> 0, num_custom_plans |-> 0,
     bypass |-> 0, usage |-> 0, discard |-> 0, lockers |-> 0]

\* pgspDsaContext context = {0}.  The null handle of an array is <<>>.
EmptyContext ==
    [plan |-> InvalidDsaPointer, len |-> 0,
     rels |-> <<>>, num_rels |-> 0,
     rdeps |-> <<>>, num_rdeps |-> 0,
     generic |-> InvalidDsaPointer]

\* The locals of pgsp_planner_hook outside a plan request.  failed is
\* history: why pgsp_allocate_plan returned false in this request, "arena"
\* (an allocation failed), "rdepend" (a registration failed) or "none".
EmptyReq ==
    [key |-> Key1, entry |-> FALSE, discard |-> 0, accum_custom_stats |-> FALSE,
     result |-> InvalidDsaPointer, plantime |-> 0, failed |-> "none",
     bypassed |-> FALSE]

\* memset(&util, 0, sizeof(pgspUtilityContext))
EmptyUtil == [kind |-> "none", classid |-> RELOID, oids |-> <<>>]

\* The shared state as one value, threaded through the sequential code.
SharedState ==
    [pgsp_hash |-> pgsp_hash, entries |-> entries, pgsp_rdepend |-> pgsp_rdepend,
     alloced_size |-> alloced_size, dealloc |-> dealloc,
     cur_median_usage |-> cur_median_usage, stats_reset |-> stats_reset]

Max(a, b) == IF a >= b THEN a ELSE b
Min(a, b) == IF a <= b THEN a ELSE b

(***************************************************************************)
(* Arena accounting macros.                                                *)
(***************************************************************************)
PGSP_USEDSMEM(s, size) == [s EXCEPT !.alloced_size = @ + size]

\* Variant: the bytes are freed in the arena but not subtracted.
PGSP_FREEDSMEM_NotSubtracted(s, size) == s

PGSP_FREEDSMEM(s, size) == [s EXCEPT !.alloced_size = @ - size]

(***************************************************************************)
(* Reverse dependency index (modelled from its specification).             *)
(***************************************************************************)
pgsp_entry_register_rdepend(rd, dbid, classid, oid, key) ==
    LET rkey == RdependKey(dbid, classid, oid) IN
    IF key \in rd[rkey]
    THEN [ok |-> TRUE, rd |-> rd]
    ELSE IF Cardinality(rd[rkey]) >= pgsp_rdepend_max
         THEN [ok |-> FALSE, rd |-> rd]
         ELSE [ok |-> TRUE, rd |-> [rd EXCEPT ![rkey] = @ \cup {key}]]

pgsp_entry_unregister_rdepend(rd, dbid, classid, oid, key) ==
    LET rkey == RdependKey(dbid, classid, oid) IN
    [rd EXCEPT ![rkey] = @ \ {key}]

\* Unregister key from the relations array[1..n].
RECURSIVE UnregisterRels(_, _, _, _, _)
UnregisterRels(rd, dbid, array, n, key) ==
    IF n = 0 THEN rd
    ELSE pgsp_entry_unregister_rdepend(
             UnregisterRels(rd, dbid, array, n - 1, key),
             dbid, RELOID, array[n], key)

\* Unregister key from the reverse dependency keys rdeps[1..n].
RECURSIVE UnregisterRdeps(_, _, _, _)
UnregisterRdeps(rd, rdeps, n, key) ==
    IF n = 0 THEN rd
    ELSE pgsp_entry_unregister_rdepend(
             UnregisterRdeps(rd, rdeps, n - 1, key),
             rdeps[n].dbid, rdeps[n].classid, rdeps[n].oid, key)

(***************************************************************************)
(* pgsp_entry_remove: free the arena memory of an entry, unregister its    *)
(* reverse dependencies and remove it from the hash table.                 *)
(***************************************************************************)
pgsp_entry_remove(s, key) ==
    LET e == s.entries[key]
        s1 == IF e.plan # InvalidDsaPointer THEN PGSP_FREEDSMEM(s, e.len) ELSE s
        s2 == IF e.num_rels > 0
              THEN PGSP_FREEDSMEM(
                       [s1 EXCEPT !.pgsp_rdepend =
                            UnregisterRels(@, key.dbid, e.rels, e.num_rels, key)],
                       e.num_rels * SizeofOid)
              ELSE s1
        s3 == IF e.num_rdeps > 0
              THEN PGSP_FREEDSMEM(
                       [s2 EXCEPT !.pgsp_rdepend =
                            UnregisterRdeps(@, e.rdeps, e.num_rdeps, key)],
                       e.num_rdeps * SizeofRdependKey)
              ELSE s2
    IN [s3 EXCEPT !.pgsp_hash = @ \ {key}, !.entries[key] = EmptyEntry]

RECURSIVE RemoveAll(_, _, _)
RemoveAll(s, victims, n) ==
    IF n = 0 THEN s
    ELSE pgsp_entry_remove(RemoveAll(s, victims, n - 1), victims[n])

(***************************************************************************)
(* pgsp_entry_dealloc: decay every usage, sort by usage, record the median *)
(* and remove the least used entries.                                      *)
(***************************************************************************)
RECURSIVE SortedByUsage_Decreasing(_, _)
RECURSIVE SortedByUsage(_, _)
\* Variant of the sort: decreasing usage.
SortedByUsage_Decreasing(ents, keys) ==
    IF keys = {} THEN <<>>
    ELSE LET first == CHOOSE k \in keys :
                          \A j \in keys : ents[k].usage >= ents[j].usage
         IN <<first>> \o SortedByUsage_Decreasing(ents, keys \ {first})

\* qsort(entries, i, ..., entry_cmp): an ordering of the keys by increasing
\* usage.
SortedByUsage(ents, keys) ==
    IF keys = {} THEN <<>>
    ELSE LET first == CHOOSE k \in keys :
                          \A j \in keys : ents[k].usage <= ents[j].usage
         IN <<first>> \o SortedByUsage(ents, keys \ {first})

\* nvictims = Max(10, i * USAGE_DEALLOC_PERCENT / 100), at most i.
NumVictims(i) == Min(Max(MinVictims, (i * USAGE_DEALLOC_PERCENT) \div 100), i)

pgsp_entry_dealloc(s) ==
    LET n == Cardinality(s.pgsp_hash)
        decayed == [k \in DOMAIN s.entries |->
                      IF k \in s.pgsp_hash
                      THEN [s.entries[k] EXCEPT
                               !.usage = (@ * USAGE_DECREASE_FACTOR) \div 100]
                      ELSE s.entries[k]]
        sorted == SortedByUsage(decayed, s.pgsp_hash)
        median == IF n > 0 THEN decayed[sorted[(n \div 2) + 1]].usage
                  ELSE s.cur_median_usage
        nvictims == NumVictims(n)
        s1 == [s EXCEPT !.entries = decayed, !.cur_median_usage = median]
        s2 == RemoveAll(s1, sorted, nvictims)
    IN [s2 EXCEPT !.dealloc = @ + 1]


(***************************************************************************)
(* pgsp_evict_by_oid: discard, evict, lock or unlock every entry the       *)
(* reverse index lists for the object.                                     *)
(***************************************************************************)
\* lockers is a pg_atomic_uint32.  The model keeps a uint32 as the signed
\* number that has the same 32 bits: 0 - 1 is -1 and stands for 4294967295,
\* so the value is non-zero exactly when the counter is non-zero and it is
\* negative exactly when the counter has wrapped below zero.
pg_atomic_fetch_sub_u32(v, n) == v - n

pg_atomic_fetch_add_u32(v, n) == v + n

\* The body of the loop over the copied keys, for one key.
EvictOneKey(s, key, kind) ==
    IF key \notin s.pgsp_hash THEN s
    ELSE
      LET e0 == s.entries[key]
          e1 == IF kind = PGSP_UNLOCK
                THEN [e0 EXCEPT !.lockers = pg_atomic_fetch_sub_u32(@, 1)]
                ELSE IF kind = PGSP_DISCARD_AND_LOCK
                     THEN [e0 EXCEPT !.lockers = pg_atomic_fetch_add_u32(@, 1)]
                     ELSE e0
          s1 == [s EXCEPT !.entries[key] = e1]
      IN IF kind = PGSP_UNLOCK THEN s1
         ELSE
           LET s2 == IF e1.plan # InvalidDsaPointer
                     THEN PGSP_FREEDSMEM(
                              [s1 EXCEPT !.entries[key] =
                                  [e1 EXCEPT !.plan = InvalidDsaPointer,
                                             !.len = 0,
                                             !.discard = IF kind # PGSP_EVICT
                                                         THEN @ + 1 ELSE @]],
                              e1.len)
                     ELSE s1
           IN IF kind = PGSP_EVICT THEN pgsp_entry_remove(s2, key) ELSE s2

RECURSIVE EvictKeys(_, _, _)
EvictKeys(s, rkeys, kind) ==
    IF rkeys = {} THEN s
    ELSE LET key == CHOOSE k \in rkeys : TRUE
         IN EvictKeys(EvictOneKey(s, key, kind), rkeys \ {key}, kind)

pgsp_evict_by_oid(s, dbid, classid, oid, kind) ==
    LET rkey == RdependKey(dbid, classid,
                           IF classid # RELOID THEN GetSysCacheHashValue1(oid)
                           ELSE oid)
    IN IF rkey \notin DOMAIN s.pgsp_rdepend \/ s.pgsp_rdepend[rkey] = {}
       THEN s
       ELSE EvictKeys(s, s.pgsp_rdepend[rkey], kind)

\* foreach(lc, entry->oids) pgsp_evict_by_oid(MyDatabaseId, classid, oid, kind)
RECURSIVE EvictOids(_, _, _, _, _)
EvictOids(s, classid, oids, n, kind) ==
    IF n = 0 THEN s
    ELSE pgsp_evict_by_oid(EvictOids(s, classid, oids, n - 1, kind),
                           MyDatabaseId, classid, oids[n], kind)

(***************************************************************************)
(* pgsp_choose_cache_plan: the arbitration between the stored generic plan *)
(* and a custom plan.  total_custom_cost / num_custom_plans is compared    *)
(* with generic_cost without rounding: g < t / n  iff  g * n < t.          *)
(***************************************************************************)
\* Variant: the threshold must be exceeded, not reached.
pgsp_choose_cache_plan_Exceeds(e, threshold) ==
    IF e.num_custom_plans > threshold
    THEN LET use_cached == e.generic_cost * e.num_custom_plans < e.total_custom_cost
         IN [use_cached |-> use_cached,
             accum_custom_stats |-> FALSE,
             entry |-> IF use_cached
                       THEN [e EXCEPT !.bypass = @ + 1, !.usage = @ + e.plantime * 100]
                       ELSE e]
    ELSE [use_cached |-> FALSE,
          accum_custom_stats |-> TRUE,
          entry |-> [e EXCEPT !.usage = @ + e.plantime * 100]]

pgsp_choose_cache_plan(e, threshold) ==
    IF e.num_custom_plans >= threshold
    THEN LET use_cached == e.generic_cost * e.num_custom_plans < e.total_custom_cost
         IN [use_cached |-> use_cached,
             accum_custom_stats |-> FALSE,
             entry |-> IF use_cached
                       THEN [e EXCEPT !.bypass = @ + 1, !.usage = @ + e.plantime * 100]
                       ELSE e]
    ELSE [use_cached |-> FALSE,
          accum_custom_stats |-> TRUE,
          entry |-> [e EXCEPT !.usage = @ + e.plantime * 100]]

(***************************************************************************)
(* pgsp_allocate_plan.                                                     *)
(***************************************************************************)
PGSP_ITEM_NOT_HANDLED(item) == item.cacheId # TYPEOID /\ item.cacheId # PROCOID

\* oids = list_append_unique_oid(oids, rte->relid) over the range table
RECURSIVE list_append_unique_oid(_, _)
list_append_unique_oid(rtable, n) ==
    IF n = 0 THEN <<>>
    ELSE LET oids == list_append_unique_oid(rtable, n - 1)
         IN IF \E i \in 1..Len(oids) : oids[i] = rtable[n]
            THEN oids ELSE Append(oids, rtable[n])

\* The part that runs before pgsp->lock is taken: the plan buffer and the
\* array of relations.  status "false": the plan could not be allocated;
\* "free_plan": the array could not be allocated (goto free_plan).
AllocatePlanUnlocked(s, stmt, oom_plan, oom_rels) ==
    LET ps == PlannedStmt(stmt)
        oids == list_append_unique_oid(ps.rtable, Len(ps.rtable))
        c1 == [EmptyContext EXCEPT !.len = ps.len, !.generic = stmt]
    IN IF oom_plan
       THEN [status |-> "false", s |-> s, context |-> EmptyContext]
       ELSE LET s1 == PGSP_USEDSMEM(s, c1.len)
                c2 == [c1 EXCEPT !.plan = stmt, !.num_rels = Len(oids)]
            IN IF Len(oids) # 0
               THEN IF oom_rels
                    THEN [status |-> "free_plan",
                          s |-> PGSP_FREEDSMEM(s1, c2.len),
                          context |-> EmptyContext]
                    ELSE [status |-> "ok",
                          s |-> PGSP_USEDSMEM(s1, SizeofOid * Len(oids)),
                          context |-> [c2 EXCEPT !.rels = oids]]
               ELSE [status |-> "ok", s |-> s1, context |-> c2]

\* for (i = 0; i < context->num_rels; i++) register array[i]
RECURSIVE RegisterRels(_, _, _, _, _)
RegisterRels(rd, array, i, num, key) ==
    IF i > num THEN [ok |-> TRUE, nb_alloced_rels |-> num, rd |-> rd]
    ELSE LET r == pgsp_entry_register_rdepend(rd, MyDatabaseId, RELOID, array[i], key)
         IN IF ~r.ok THEN [ok |-> FALSE, nb_alloced_rels |-> i - 1, rd |-> rd]
            ELSE RegisterRels(r.rd, array, i + 1, num, key)

\* foreach(lc, invalItems) register the handled items
RECURSIVE RegisterInvalItems(_, _, _, _, _)
RegisterInvalItems(rd, items, idx, rdeps_tmp, key) ==
    IF idx > Len(items) THEN [ok |-> TRUE, rdeps_tmp |-> rdeps_tmp, rd |-> rd]
    ELSE IF PGSP_ITEM_NOT_HANDLED(items[idx])
         THEN RegisterInvalItems(rd, items, idx + 1, rdeps_tmp, key)
         ELSE LET r == pgsp_entry_register_rdepend(rd, MyDatabaseId,
                           items[idx].cacheId, items[idx].hashValue, key)
              IN IF ~r.ok
                 THEN [ok |-> FALSE, rdeps_tmp |-> rdeps_tmp, rd |-> rd]
                 ELSE RegisterInvalItems(r.rd, items, idx + 1,
                          Append(rdeps_tmp,
                                 RdependKey(MyDatabaseId, items[idx].cacheId,
                                            items[idx].hashValue)),
                          key)

\* free_invals: unregister the handled items; i++; if (i > nb_alloced_inval) break
RECURSIVE UnwindInvalItems(_, _, _, _, _, _)
UnwindInvalItems(rd, items, idx, i, nb_alloced_inval, key) ==
    IF idx > Len(items) THEN rd
    ELSE IF PGSP_ITEM_NOT_HANDLED(items[idx])
         THEN UnwindInvalItems(rd, items, idx + 1, i, nb_alloced_inval, key)
         ELSE LET rd1 == pgsp_entry_unregister_rdepend(rd, MyDatabaseId,
                             items[idx].cacheId, items[idx].hashValue, key)
              IN IF i + 1 > nb_alloced_inval THEN rd1
                 ELSE UnwindInvalItems(rd1, items, idx + 1, i + 1,
                                       nb_alloced_inval, key)

\* The part that runs under the exclusive pgsp->lock: the registrations, the
\* array of reverse dependency keys and the unwinding (free_invals,
\* free_rels, free_plan).
AllocatePlanLocked(s, ctx, key, oom_rdeps) ==
    LET items == PlannedStmt(ctx.generic).invalItems
        rr == RegisterRels(s.pgsp_rdepend, ctx.rels, 1, ctx.num_rels, key)
        ri == RegisterInvalItems(rr.rd, items, 1, <<>>, key)
        nb_alloced_inval == Len(ri.rdeps_tmp)
        alloc_failed == ri.ok /\ nb_alloced_inval > 0 /\ oom_rdeps
        ok == rr.ok /\ ri.ok /\ ~alloc_failed
        \* free_invals
        rd_inv == IF rr.ok /\ ~ok /\ nb_alloced_inval > 0
                  THEN UnwindInvalItems(ri.rd, items, 1, 0, nb_alloced_inval, key)
                  ELSE IF rr.ok THEN ri.rd ELSE rr.rd
        \* free_rels
        rd_rel == IF ~ok /\ ctx.num_rels > 0
                  THEN UnregisterRels(rd_inv, MyDatabaseId, ctx.rels,
                                      rr.nb_alloced_rels, key)
                  ELSE rd_inv
        s1 == [s EXCEPT !.pgsp_rdepend = rd_rel]
    IN IF ok
       THEN [ok |-> TRUE, oom |-> FALSE,
             s |-> IF nb_alloced_inval > 0
                   THEN PGSP_USEDSMEM(s1, nb_alloced_inval * SizeofRdependKey)
                   ELSE s1,
             context |-> [ctx EXCEPT !.rdeps = ri.rdeps_tmp,
                                     !.num_rdeps = nb_alloced_inval]]
       ELSE [ok |-> FALSE, oom |-> alloc_failed,
             s |-> PGSP_FREEDSMEM(
                       IF ctx.num_rels > 0
                       THEN PGSP_FREEDSMEM(s1, ctx.num_rels * SizeofOid)
                       ELSE s1,
                       ctx.len),
             context |-> EmptyContext]


(***************************************************************************)
(* pgsp_entry_alloc.                                                       *)
(***************************************************************************)
\* Variant of PGSP_FREERELEASEDSMEM: the bytes are given back, the handle
\* is left in place.
FreeContextPlan_HandleKept(r) ==
    [r EXCEPT !.s = PGSP_FREEDSMEM(@, r.c.len),
              !.c = [@ EXCEPT !.len = 0]]

\* PGSP_FREERELEASEDSMEM(context, plan, context->len, len)
FreeContextPlan(r) ==
    [r EXCEPT !.s = PGSP_FREEDSMEM(@, r.c.len),
              !.c = [@ EXCEPT !.plan = InvalidDsaPointer, !.len = 0]]

\* PGSP_FREERELEASEDSMEM(context, rels, context->num_rels * sizeof(Oid), num_rels)
FreeContextRels(r) ==
    [r EXCEPT !.s = PGSP_FREEDSMEM(@, r.c.num_rels * SizeofOid),
              !.c = [@ EXCEPT !.rels = <<>>, !.num_rels = 0]]

\* PGSP_FREERELEASEDSMEM(context, rdeps, context->num_rdeps * sizeof(pgspRdependKey), num_rdeps)
FreeContextRdeps(r) ==
    [r EXCEPT !.s = PGSP_FREEDSMEM(@, r.c.num_rdeps * SizeofRdependKey),
              !.c = [@ EXCEPT !.rdeps = <<>>, !.num_rdeps = 0]]

\* while (hash_get_num_entries(pgsp_hash) >= pgsp_max) pgsp_entry_dealloc()
RECURSIVE MakeSpace(_)
\* Variant: no eviction before the insertion.
MakeSpace_NoEviction(s) == s

MakeSpace(s) ==
    IF Cardinality(s.pgsp_hash) >= pgsp_max
    THEN MakeSpace(pgsp_entry_dealloc(s))
    ELSE s

\* Unregister key from the old[1..n] that are not among the new ones.
RECURSIVE UnregisterUnreferencedRels(_, _, _, _, _, _)
UnregisterUnreferencedRels(rd, old, n, new, num_new, key) ==
    IF n = 0 THEN rd
    ELSE LET rd1 == UnregisterUnreferencedRels(rd, old, n - 1, new, num_new, key)
         IN IF \E j \in 1..num_new : old[n] = new[j]
            THEN rd1
            ELSE pgsp_entry_unregister_rdepend(rd1, MyDatabaseId, RELOID, old[n], key)

RECURSIVE UnregisterUnreferencedRdeps(_, _, _, _, _, _)
UnregisterUnreferencedRdeps(rd, old, n, new, num_new, key) ==
    IF n = 0 THEN rd
    ELSE LET rd1 == UnregisterUnreferencedRdeps(rd, old, n - 1, new, num_new, key)
         IN IF \E j \in 1..num_new : old[n] = new[j]
            THEN rd1
            ELSE pgsp_entry_unregister_rdepend(rd1, old[n].dbid, old[n].classid,
                                               old[n].oid, key)

\* if (!found) ... else if (entry->plan == InvalidDsaPointer) ...
EntryAllocBranch(s, key, ctx, plantime, custom_cost, generic_cost, found) ==
    IF ~found
    THEN [s |-> [s EXCEPT !.pgsp_hash = @ \cup {key},
                          !.entries[key] =
                              [plan |-> ctx.plan, len |-> ctx.len,
                               rels |-> ctx.rels, num_rels |-> ctx.num_rels,
                               rdeps |-> ctx.rdeps, num_rdeps |-> ctx.num_rdeps,
                               plantime |-> plantime, generic_cost |-> generic_cost,
                               total_custom_cost |-> custom_cost,
                               num_custom_plans |-> 1,
                               bypass |-> 0, usage |-> PGSP_USAGE_INIT,
                               discard |-> 0, lockers |-> 0]],
          c |-> [ctx EXCEPT !.plan = InvalidDsaPointer, !.len = 0,
                            !.rels = <<>>, !.num_rels = 0,
                            !.rdeps = <<>>, !.num_rdeps = 0]]
    ELSE IF s.entries[key].plan = InvalidDsaPointer
         THEN IF s.entries[key].lockers # 0
              THEN LET r1 == FreeContextPlan([s |-> s, c |-> ctx])
                       rd1 == IF ctx.num_rels > 0
                              THEN UnregisterRels(s.pgsp_rdepend, MyDatabaseId,
                                                  ctx.rels, ctx.num_rels, key)
                              ELSE s.pgsp_rdepend
                       rd2 == IF ctx.num_rdeps > 0
                              THEN UnregisterRdeps(rd1, ctx.rdeps, ctx.num_rdeps, key)
                              ELSE rd1
                       r2 == [r1 EXCEPT !.s.pgsp_rdepend = rd2]
                       r3 == IF ctx.num_rels > 0 THEN FreeContextRels(r2) ELSE r2
                   IN IF ctx.num_rdeps > 0 THEN FreeContextRdeps(r3) ELSE r3
              ELSE [s |-> [s EXCEPT !.entries[key].plan = ctx.plan,
                                    !.entries[key].len = ctx.len],
                    c |-> [ctx EXCEPT !.plan = InvalidDsaPointer, !.len = 0]]
         ELSE [s |-> s, c |-> ctx]

\* Update reverse dependencies: if (found && entry->plan != InvalidDsaPointer)
EntryAllocReconcile(r, key) ==
    LET e == r.s.entries[key]
        c == r.c
        \* the relations
        rd1 == IF e.rels # <<>>
               THEN UnregisterUnreferencedRels(r.s.pgsp_rdepend, e.rels, e.num_rels,
                                               c.rels, c.num_rels, key)
               ELSE r.s.pgsp_rdepend
        s1 == IF e.rels # <<>>
              THEN PGSP_FREEDSMEM([r.s EXCEPT !.pgsp_rdepend = rd1],
                                  e.num_rels * SizeofOid)
              ELSE r.s
        \* the reverse dependency keys
        rd2 == IF e.rdeps # <<>>
               THEN UnregisterUnreferencedRdeps(s1.pgsp_rdepend, e.rdeps, e.num_rdeps,
                                                c.rdeps, c.num_rdeps, key)
               ELSE s1.pgsp_rdepend
        s2 == IF e.rdeps # <<>>
              THEN PGSP_FREEDSMEM([s1 EXCEPT !.pgsp_rdepend = rd2],
                                  e.num_rdeps * SizeofRdependKey)
              ELSE s1
    IN [s |-> [s2 EXCEPT !.entries[key].rels = c.rels,
                         !.entries[key].num_rels = c.num_rels,
                         !.entries[key].rdeps = c.rdeps,
                         !.entries[key].num_rdeps = c.num_rdeps],
        c |-> [c EXCEPT !.rels = <<>>, !.num_rels = 0,
                        !.rdeps = <<>>, !.num_rdeps = 0]]

\* Variant: when the store is full the eviction runs and the insertion
\* gives up, freeing what it had prepared.
pgsp_entry_alloc_GivesUpWhenFull(s, key, ctx, plantime, custom_cost, generic_cost) ==
    LET s1 == MakeSpace(s)
        found == Cardinality(s.pgsp_hash) >= pgsp_max \/ key \in s1.pgsp_hash
        r1 == IF found THEN [s |-> s1, c |-> ctx]
              ELSE EntryAllocBranch(s1, key, ctx, plantime, custom_cost,
                                    generic_cost, FALSE)
        r2 == IF r1.c.plan # InvalidDsaPointer THEN FreeContextPlan(r1) ELSE r1
        r4 == IF r2.c.rels # <<>> THEN FreeContextRels(r2) ELSE r2
        r5 == IF r4.c.rdeps # <<>> THEN FreeContextRdeps(r4) ELSE r4
    IN r5.s

\* pgsp_entry_alloc up to its return: the shared state and the staging
\* context of the caller as the function leaves them.
EntryAllocResult(s, key, ctx, plantime, custom_cost, generic_cost) ==
    LET s1 == MakeSpace(s)
        found == key \in s1.pgsp_hash
        r1 == EntryAllocBranch(s1, key, ctx, plantime, custom_cost, generic_cost, found)
        \* Free the plan if it wasn't transferred
        r2 == IF r1.c.plan # InvalidDsaPointer THEN FreeContextPlan(r1) ELSE r1
        r3 == IF found /\ r2.s.entries[key].plan # InvalidDsaPointer
              THEN EntryAllocReconcile(r2, key)
              ELSE r2
        r4 == IF r3.c.rels # <<>> THEN FreeContextRels(r3) ELSE r3
        r5 == IF r4.c.rdeps # <<>> THEN FreeContextRdeps(r4) ELSE r4
    IN r5

pgsp_entry_alloc(s, key, ctx, plantime, custom_cost, generic_cost) ==
    EntryAllocResult(s, key, ctx, plantime, custom_cost, generic_cost).s

(***************************************************************************)
(* pg_shared_plans_reset_internal                                          *)
(***************************************************************************)
RECURSIVE RemoveKeys(_, _)
RemoveKeys(s, keys) ==
    IF keys = {} THEN s
    ELSE LET key == CHOOSE k \in keys : TRUE
         IN RemoveKeys(pgsp_entry_remove(s, key), keys \ {key})

\* Variant: an entry is removed when its key matches one of the arguments.
pg_shared_plans_reset_internal_AnyArgument(s, userid, dbid, queryid, now) ==
    LET num_entries == Cardinality(s.pgsp_hash)
        matching == IF userid # 0 \/ dbid # 0 \/ queryid # 0
                    THEN { k \in s.pgsp_hash :
                             \/ (userid # 0 /\ k.userid = userid)
                             \/ (dbid # 0 /\ k.dbid = dbid)
                             \/ (queryid # 0 /\ k.queryid = queryid) }
                    ELSE s.pgsp_hash
        s1 == RemoveKeys(s, matching)
    IN IF num_entries = Cardinality(matching)
       THEN [s1 EXCEPT !.dealloc = 0, !.stats_reset = now]
       ELSE s1

\* Variant: the statistics are left as they are.
pg_shared_plans_reset_internal_KeepStats(s, userid, dbid, queryid, now) ==
    LET matching == IF userid # 0 \/ dbid # 0 \/ queryid # 0
                    THEN { k \in s.pgsp_hash :
                             /\ (userid = 0 \/ k.userid = userid)
                             /\ (dbid = 0 \/ k.dbid = dbid)
                             /\ (queryid = 0 \/ k.queryid = queryid) }
                    ELSE s.pgsp_hash
    IN RemoveKeys(s, matching)

pg_shared_plans_reset_internal(s, userid, dbid, queryid, now) ==
    LET num_entries == Cardinality(s.pgsp_hash)
        matching == IF userid # 0 \/ dbid # 0 \/ queryid # 0
                    THEN { k \in s.pgsp_hash :
                             /\ (userid = 0 \/ k.userid = userid)
                             /\ (dbid = 0 \/ k.dbid = dbid)
                             /\ (queryid = 0 \/ k.queryid = queryid) }
                    ELSE s.pgsp_hash
        s1 == RemoveKeys(s, matching)
    IN IF num_entries = Cardinality(matching)
       THEN [s1 EXCEPT !.dealloc = 0, !.stats_reset = now]
       ELSE s1


(***************************************************************************)
(* pgsp->lock.  An exclusive section is one action, enabled when nobody    *)
(* holds the lock in shared mode; a shared hold can span actions.          *)
(***************************************************************************)
LWLockHeldByMe(w) == w \in lock_shared

CanAcquireExclusive == lock_shared = {}

\* Assign the shared state from a value computed by the sequential code.
SetShared(s) ==
    /\ pgsp_hash' = s.pgsp_hash
    /\ entries' = s.entries
    /\ pgsp_rdepend' = s.pgsp_rdepend
    /\ alloced_size' = s.alloced_size
    /\ dealloc' = s.dealloc
    /\ cur_median_usage' = s.cur_median_usage
    /\ stats_reset' = s.stats_reset

\* The counters that grow without limit are capped where an operation starts.
WithinBounds(key) ==
    /\ entries[key].bypass < MaxBypass
    /\ nrequests < MaxRequests
    /\ dealloc < MaxDealloc

InitStore ==
    /\ pgsp_hash = {}
    /\ entries = [k \in Keys |-> EmptyEntry]
    /\ pgsp_rdepend = [rkey \in RdependKeys |-> {}]
    /\ alloced_size = 0
    /\ dealloc = 0
    /\ cur_median_usage = ASSUMED_MEDIAN_INIT
    /\ stats_reset = 0
    /\ lock_shared = {}
    /\ pc = [w \in Backends |-> "idle"]
    /\ req = [w \in Backends |-> EmptyReq]
    /\ context = [w \in Backends |-> EmptyContext]
    /\ util = [w \in Backends |-> EmptyUtil]
    /\ nrequests = 0
    /\ pgsp_max \in 1..MaxStore
    /\ pgsp_ro = [w \in Backends |-> "off"]

Init == InitStore /\ pgsp_threshold = 1

\* The arbitration scenarios run under every value of the setting.
InitScenario == InitStore /\ pgsp_threshold \in 1..PLANCACHE_THRESHOLD

(***************************************************************************)
(* pgsp_planner_hook                                                       *)
(***************************************************************************)
\* goto fallback: the request is not handled (disabled, no query id, no
\* bound parameters, utility statement, rejected by the walker).
\* Variant: the request that is not handled counts as an eviction run.
HookFallback_Counted(w) ==
    /\ pc[w] = "idle"
    /\ pc' = [pc EXCEPT ![w] = "returned_planned"]
    /\ dealloc' = Min(dealloc + 1, MaxDealloc + 1)
    /\ UNCHANGED <<pgsp_hash, entries, pgsp_rdepend, alloced_size,
                   cur_median_usage, stats_reset, pgsp_threshold, pgsp_max,
                   pgsp_ro, nrequests, lock_shared, req, context, util>>

HookFallback(w) ==
    /\ pc[w] = "idle"
    /\ pc' = [pc EXCEPT ![w] = "returned_planned"]
    /\ UNCHANGED <<shared, pgsp_threshold, pgsp_max, pgsp_ro, nrequests, lock_shared, req, context, util>>

\* The lookup under the shared lock, up to the release before the executor
\* locks (use_cached) or up to the release that precedes the planner.
HookLookup(w, key) ==
    /\ pc[w] = "idle"
    /\ WithinBounds(key)
    /\ LET e == entries[key] IN
       IF key \in pgsp_hash /\ e.plan # InvalidDsaPointer
       THEN LET ch == pgsp_choose_cache_plan(e, pgsp_threshold) IN
            /\ entries' = [entries EXCEPT ![key] = ch.entry]
            /\ IF ch.use_cached
               THEN /\ pc' = [pc EXCEPT ![w] = "exec_locks"]
                    /\ req' = [req EXCEPT ![w] =
                                 [EmptyReq EXCEPT !.key = key, !.entry = TRUE,
                                                  !.discard = e.discard,
                                                  !.result = e.plan,
                                                  !.bypassed = TRUE]]
                    /\ UNCHANGED lock_shared
               ELSE /\ pc' = [pc EXCEPT ![w] = "release"]
                    /\ req' = [req EXCEPT ![w] =
                                 [EmptyReq EXCEPT !.key = key, !.entry = TRUE,
                                                  !.accum_custom_stats =
                                                      ch.accum_custom_stats]]
                    /\ lock_shared' = lock_shared \cup {w}
       ELSE /\ pc' = [pc EXCEPT ![w] = "release"]
            /\ req' = [req EXCEPT ![w] =
                         [EmptyReq EXCEPT !.key = key, !.entry = FALSE]]
            /\ lock_shared' = lock_shared \cup {w}
            /\ UNCHANGED entries
    /\ UNCHANGED <<pgsp_hash, pgsp_rdepend, alloced_size, dealloc,
                   cur_median_usage, stats_reset, pgsp_threshold, pgsp_max, pgsp_ro, nrequests, context, util>>

\* After pgsp_acquire_executor_locks: check that the entry is still valid.
HookRecheck(w) ==
    /\ pc[w] = "exec_locks"
    /\ LET key == req[w].key
           e == entries[key]
       IN IF key \notin pgsp_hash \/ e.plan = InvalidDsaPointer
             \/ e.discard # req[w].discard
          THEN /\ pc' = [pc EXCEPT ![w] = "release"]
               /\ req' = [req EXCEPT ![w].entry = FALSE,
                                     ![w].result = InvalidDsaPointer]
          ELSE /\ pc' = [pc EXCEPT ![w] = "returned_cached"]
               /\ UNCHANGED req
    /\ UNCHANGED <<shared, pgsp_threshold, pgsp_max, pgsp_ro, nrequests, lock_shared, context, util>>

\* LWLockRelease(pgsp->lock) before the planner is called.  Releasing a
\* lock that is not held raises an error ("lock is not held").
HookRelease(w) ==
    /\ pc[w] = "release"
    /\ IF LWLockHeldByMe(w)
       THEN /\ lock_shared' = lock_shared \ {w}
            /\ pc' = [pc EXCEPT ![w] = "plan"]
            /\ UNCHANGED req
       ELSE /\ pc' = [pc EXCEPT ![w] = "error"]
            /\ req' = [req EXCEPT ![w] = [EmptyReq EXCEPT !.key = req[w].key]]
            /\ UNCHANGED lock_shared
    /\ UNCHANGED <<shared, pgsp_threshold, pgsp_max, pgsp_ro, nrequests, context, util>>

\* The host planner, then the decision to cache, to accumulate or to return.
\* The planning time is measured here; the cost of the custom plan and the
\* generic plan are values of the host planner that the later steps use.
\* Variant: the plan is cached whatever the planning time.
HookPlanWith_NoMinimum(w, times) ==
    /\ pc[w] = "plan"
    /\ \E plantime \in times :
         /\ req' = [req EXCEPT ![w].plantime = IF req[w].entry THEN @ ELSE plantime]
         /\ IF ~req[w].entry
            THEN pc' = [pc EXCEPT ![w] = "alloc"]
            ELSE IF req[w].accum_custom_stats
                 THEN pc' = [pc EXCEPT ![w] = "accum"]
                 ELSE pc' = [pc EXCEPT ![w] = "returned_planned"]
    /\ UNCHANGED <<shared, pgsp_threshold, pgsp_max, pgsp_ro, nrequests, lock_shared, context, util>>

HookPlanWith(w, times) ==
    /\ pc[w] = "plan"
    /\ \E plantime \in times :
         \* if (!entry) plantime = ... the measured planning time
         /\ req' = [req EXCEPT ![w].plantime = IF req[w].entry THEN @ ELSE plantime]
         /\ IF ~req[w].entry /\ plantime >= pgsp_min_plantime
            THEN pc' = [pc EXCEPT ![w] = "alloc"]
            ELSE IF req[w].accum_custom_stats
                 THEN pc' = [pc EXCEPT ![w] = "accum"]
                 ELSE pc' = [pc EXCEPT ![w] = "returned_planned"]
    /\ UNCHANGED <<shared, pgsp_threshold, pgsp_max, pgsp_ro, nrequests, lock_shared, context, util>>

HookPlan(w) == HookPlanWith(w, PlanTimes)

\* pgsp_allocate_plan before it takes the lock.  oom is the set of outcomes
\* of an allocation in the arena: TRUE when it fails.
HookAllocateWith(w, oom) ==
    /\ pc[w] = "alloc"
    /\ \E generic \in GenericPlans(req[w].key),
          oom_plan \in oom, oom_rels \in oom :
         LET r == AllocatePlanUnlocked(SharedState, generic, oom_plan, oom_rels)
         IN /\ SetShared(r.s)
            /\ context' = [context EXCEPT ![w] = r.context]
            /\ pc' = [pc EXCEPT ![w] =
                        CASE r.status = "ok" -> "register"
                          [] r.status = "false" -> "returned_planned"
                          [] OTHER -> IF LWLockHeldByMe(w)
                                      THEN "returned_planned" ELSE "error"]
            /\ req' = [req EXCEPT ![w].failed =
                         IF r.status = "ok" THEN @ ELSE "arena"]
    /\ UNCHANGED <<pgsp_threshold, pgsp_max, pgsp_ro, nrequests, lock_shared, util>>

HookAllocate(w) == HookAllocateWith(w, BOOLEAN)

\* pgsp_allocate_plan under the exclusive lock.
HookRegisterWith(w, oom) ==
    /\ pc[w] = "register"
    /\ CanAcquireExclusive
    /\ \E oom_rdeps \in oom :
         LET r == AllocatePlanLocked(SharedState, context[w], req[w].key, oom_rdeps)
         IN /\ SetShared(r.s)
            /\ context' = [context EXCEPT ![w] = r.context]
            /\ pc' = [pc EXCEPT ![w] = IF r.ok THEN "entry_alloc"
                                       ELSE "returned_planned"]
            /\ req' = [req EXCEPT ![w].failed =
                         IF r.ok THEN @ ELSE IF r.oom THEN "arena" ELSE "rdepend"]
    /\ UNCHANGED <<pgsp_threshold, pgsp_max, pgsp_ro, nrequests, lock_shared, util>>

HookRegister(w) == HookRegisterWith(w, BOOLEAN)

\* pgsp_cache_plan: pgsp_entry_alloc under the exclusive lock.
HookEntryAllocWith(w, costs) ==
    /\ pc[w] = "entry_alloc"
    /\ CanAcquireExclusive
    /\ \E custom_cost \in costs :
         SetShared(pgsp_entry_alloc(SharedState, req[w].key, context[w],
                                    req[w].plantime, custom_cost,
                                    PlannedStmt(context[w].generic).generic_cost))
    /\ context' = [context EXCEPT ![w] = EmptyContext]
    /\ pc' = [pc EXCEPT ![w] = "returned_planned"]
    /\ UNCHANGED <<pgsp_threshold, pgsp_max, pgsp_ro, nrequests, lock_shared, req, util>>

HookEntryAlloc(w) == HookEntryAllocWith(w, CustomCosts)

\* Variant of pgsp_accum_custom_plan: the cost is added, the sample is not
\* counted.
HookAccum_NotCounted(w) ==
    /\ pc[w] = "accum"
    /\ \E custom_cost \in ScenarioCosts :
         LET key == req[w].key IN
         entries' = IF key \in pgsp_hash
                    THEN [entries EXCEPT
                            ![key].total_custom_cost = @ + custom_cost]
                    ELSE entries
    /\ pc' = [pc EXCEPT ![w] = "returned_planned"]
    /\ UNCHANGED <<pgsp_hash, pgsp_rdepend, alloced_size, dealloc,
                   cur_median_usage, stats_reset, pgsp_threshold, pgsp_max, pgsp_ro, nrequests, lock_shared,
                   req, context, util>>

\* pgsp_accum_custom_plan
HookAccum(w) ==
    /\ pc[w] = "accum"
    /\ \E custom_cost \in ScenarioCosts :
         LET key == req[w].key IN
         entries' = IF key \in pgsp_hash
                    THEN [entries EXCEPT
                            ![key].total_custom_cost = @ + custom_cost,
                            ![key].num_custom_plans = @ + 1]
                    ELSE entries
    /\ pc' = [pc EXCEPT ![w] = "returned_planned"]
    /\ UNCHANGED <<pgsp_hash, pgsp_rdepend, alloced_size, dealloc,
                   cur_median_usage, stats_reset, pgsp_threshold, pgsp_max, pgsp_ro, nrequests, lock_shared, req,
                   context, util>>

\* The plan request is over; the backend is ready for the next statement.
HookReturnWith(w, count) ==
    /\ pc[w] \in {"returned_cached", "returned_planned", "error"}
    /\ pc' = [pc EXCEPT ![w] = "idle"]
    /\ req' = [req EXCEPT ![w] = EmptyReq]
    /\ nrequests' = nrequests + count
    /\ UNCHANGED <<shared, pgsp_threshold, pgsp_max, pgsp_ro, lock_shared, context, util>>

HookReturn(w) == HookReturnWith(w, 0)


(***************************************************************************)
(* pgsp_ProcessUtility                                                     *)
(***************************************************************************)
\* The utility statements of the model, as pgsp_utility_pre_exec and
\* pgsp_utility_post_exec classify them: the kind, the class and the oids.
UtilityStmts ==
    { [kind |-> PGSP_DISCARD, classid |-> RELOID, oids |-> <<Rel1>>],
      [kind |-> PGSP_DISCARD, classid |-> TYPEOID, oids |-> <<Type1>>],
      [kind |-> PGSP_EVICT, classid |-> RELOID, oids |-> <<Rel2>>],
      [kind |-> PGSP_DISCARD_AND_LOCK, classid |-> RELOID, oids |-> <<Rel1>>] }

UtilityWithinBounds(stmt) ==
    /\ stmt.kind # PGSP_EVICT =>
          \A k \in Keys : entries[k].discard < MaxDiscard
    /\ stmt.kind = PGSP_DISCARD_AND_LOCK =>
          \A k \in Keys : entries[k].lockers < MaxLockers

\* pgsp_utility_pre_exec, then pgsp_utility_do_lock up to the release of the
\* exclusive lock.
UtilityStart(w, stmt) ==
    /\ pc[w] = "idle"
    /\ UtilityWithinBounds(stmt)
    /\ util' = [util EXCEPT ![w] = stmt]
    /\ IF stmt.kind = PGSP_DISCARD_AND_LOCK
       THEN /\ CanAcquireExclusive
            /\ SetShared(EvictOids(SharedState, stmt.classid, stmt.oids,
                                   Len(stmt.oids), PGSP_DISCARD_AND_LOCK))
            /\ pc' = [pc EXCEPT ![w] = "utility_downgrade"]
       ELSE /\ pc' = [pc EXCEPT ![w] = "utility_exec"]
            /\ UNCHANGED shared
    /\ UNCHANGED <<pgsp_threshold, pgsp_max, pgsp_ro, nrequests, lock_shared, req, context>>

\* Variant of pgsp_utility_do_lock: the UNLOCK pass runs after the release
\* of the exclusive lock, without the shared lock.
UtilityDowngrade_NotHeld(w) ==
    /\ pc[w] = "utility_downgrade"
    /\ UNCHANGED lock_shared
    /\ SetShared(EvictOids(SharedState, util[w].classid, util[w].oids,
                           Len(util[w].oids), PGSP_UNLOCK))
    /\ pc' = [pc EXCEPT ![w] = "utility_exec"]
    /\ UNCHANGED <<pgsp_threshold, pgsp_max, pgsp_ro, nrequests, req, context, util>>

\* pgsp_utility_do_lock from LWLockAcquire(pgsp->lock, LW_SHARED) to its end.
UtilityDowngrade(w) ==
    /\ pc[w] = "utility_downgrade"
    /\ lock_shared' = lock_shared \cup {w}
    /\ SetShared(EvictOids(SharedState, util[w].classid, util[w].oids,
                           Len(util[w].oids), PGSP_UNLOCK))
    /\ pc' = [pc EXCEPT ![w] = "utility_exec"]
    /\ UNCHANGED <<pgsp_threshold, pgsp_max, pgsp_ro, nrequests, req, context, util>>

\* The utility has run: pgsp_utility_post_exec and the processing of the
\* collected oids, up to the release of pgsp->lock.  read_only is set with
\* GUC_ACTION_LOCAL: in a transaction block it stays on until the end of
\* the transaction, outside a block the transaction of the statement ends
\* with the statement and the setting is back to its session value.
UtilityPostWith(w, inblock) ==
    /\ pc[w] = "utility_exec"
    /\ IF util[w].kind = PGSP_DISCARD_AND_LOCK
       THEN /\ LWLockHeldByMe(w)
            /\ lock_shared' = lock_shared \ {w}
            /\ UNCHANGED shared
       ELSE /\ CanAcquireExclusive
            /\ SetShared(EvictOids(SharedState, util[w].classid, util[w].oids,
                                   Len(util[w].oids), util[w].kind))
            /\ UNCHANGED lock_shared
    /\ util' = [util EXCEPT ![w] = EmptyUtil]
    /\ pc' = [pc EXCEPT ![w] = "idle"]
    /\ pgsp_ro' = [pgsp_ro EXCEPT ![w] = IF inblock /\ @ = "off" THEN "local" ELSE @]
    /\ UNCHANGED <<pgsp_threshold, pgsp_max, nrequests, req, context>>

UtilityPost(w) == UtilityPostWith(w, FALSE)

\* SET pg_shared_plans.read_only, by the user of the session.
SetReadOnly(w, on) ==
    /\ pc[w] = "idle"
    /\ pgsp_ro' = [pgsp_ro EXCEPT ![w] = IF on THEN "on" ELSE "off"]
    /\ pgsp_ro'[w] # pgsp_ro[w]
    /\ UNCHANGED <<shared, pgsp_threshold, pgsp_max, nrequests, lock_shared,
                   pc, req, context, util>>

\* The end of a transaction block: the settings made with GUC_ACTION_LOCAL
\* are back to their session value.
TransactionEnd(w) ==
    /\ pc[w] = "idle"
    /\ pgsp_ro[w] = "local"
    /\ pgsp_ro' = [pgsp_ro EXCEPT ![w] = "off"]
    /\ UNCHANGED <<shared, pgsp_threshold, pgsp_max, nrequests, lock_shared,
                   pc, req, context, util>>

(***************************************************************************)
(* pg_shared_plans_reset                                                   *)
(***************************************************************************)
ResetArgs ==
    { [userid |-> 0, dbid |-> 0, queryid |-> 0],
      [userid |-> 0, dbid |-> 0, queryid |-> 1],
      [userid |-> 0, dbid |-> MyDatabaseId, queryid |-> 2] }

\* pg_shared_plans_reset(userid, dbid, queryid).  now is the reading of
\* GetCurrentTimestamp: the clock is later than every earlier reading.
ResetWith(w, args, times) ==
    /\ pc[w] = "idle"
    /\ CanAcquireExclusive
    /\ \E now \in times :
         /\ now > stats_reset
         /\ SetShared(pg_shared_plans_reset_internal(SharedState, args.userid,
                                                     args.dbid, args.queryid, now))
    /\ UNCHANGED <<pgsp_threshold, pgsp_max, pgsp_ro, nrequests, lock_shared, pc, req, context, util>>

Reset(w, args) == ResetWith(w, args, 1..MaxResetTime)

Next ==
    \/ \E w \in Backends : HookFallback(w)
    \/ \E w \in Backends, key \in Keys : HookLookup(w, key)
    \/ \E w \in Backends : HookRecheck(w)
    \/ \E w \in Backends : HookRelease(w)
    \/ \E w \in Backends : HookPlan(w)
    \/ \E w \in Backends : HookAllocate(w)
    \/ \E w \in Backends : HookRegister(w)
    \/ \E w \in Backends : HookEntryAlloc(w)
    \/ \E w \in Backends : HookReturn(w)
    \/ \E w \in Backends, stmt \in UtilityStmts : UtilityStart(w, stmt)
    \/ \E w \in Backends : UtilityDowngrade(w)
    \/ \E w \in Backends : UtilityPost(w)
    \/ \E w \in Backends, args \in ResetArgs : Reset(w, args)

Spec == Init /\ [][Next]_vars

(***************************************************************************)
(* The arbitration scenario: one backend plans the same query again and    *)
(* again; the planning time is not below the minimum, no allocation fails  *)
(* and no utility statement runs.                                          *)
(***************************************************************************)
ScenarioBackend == 1

NextScenario ==
    \/ HookLookup(ScenarioBackend, Key1)
    \/ HookRecheck(ScenarioBackend)
    \/ HookRelease(ScenarioBackend)
    \/ HookPlanWith(ScenarioBackend, ScenarioPlanTimes)
    \/ HookAllocateWith(ScenarioBackend, {FALSE})
    \/ HookRegisterWith(ScenarioBackend, {FALSE})
    \/ HookEntryAllocWith(ScenarioBackend, ScenarioCosts)
    \/ HookAccum(ScenarioBackend)
    \/ HookReturnWith(ScenarioBackend, 1)

SpecScenario == InitScenario /\ [][NextScenario]_vars



(***************************************************************************)
(* Properties.                                                             *)
(***************************************************************************)
\* The arena bytes attributed to an entry or to a staging context.
AttributedBytes(x) ==
    (IF x.plan # InvalidDsaPointer THEN x.len ELSE 0)
    + x.num_rels * SizeofOid + x.num_rdeps * SizeofRdependKey

RECURSIVE SumBytes(_, _)
SumBytes(f, S) ==
    IF S = {} THEN 0
    ELSE LET x == CHOOSE y \in S : TRUE
         IN AttributedBytes(f[x]) + SumBytes(f, S \ {x})

\* The entry records a dependency on the object (classid, oid).
DependsOn(e, dbid, classid, oid) ==
    IF classid = RELOID
    THEN \E i \in 1..e.num_rels : e.rels[i] = oid
    ELSE \E i \in 1..e.num_rdeps :
            e.rdeps[i] = RdependKey(dbid, classid, GetSysCacheHashValue1(oid))

\* C1: reverse closure.  In every state (no backend is ever observed inside
\* an exclusive section), for every entry of the store and every relation or
\* invalidation item recorded in its dependency arrays, the reverse index of
\* that object contains the fingerprint of the entry.
ReverseClosure ==
    \A k \in pgsp_hash :
        /\ \A i \in 1..entries[k].num_rels :
              k \in pgsp_rdepend[RdependKey(k.dbid, RELOID, entries[k].rels[i])]
        /\ \A i \in 1..entries[k].num_rdeps :
              k \in pgsp_rdepend[entries[k].rdeps[i]]

\* The step of a backend that applies the invalidation of a utility
\* statement of kind DISCARD or EVICT, or the LOCK step of a concurrent one.
InvalidationStep(w) ==
    \/ /\ pc[w] = "utility_exec" /\ pc'[w] = "idle"
       /\ util[w].kind \in {PGSP_DISCARD, PGSP_EVICT}
    \/ /\ pc[w] = "idle" /\ pc'[w] = "utility_downgrade"

\* The statement whose invalidation the step applies.
InvalidationStmt(w) == IF pc[w] = "idle" THEN util'[w] ELSE util[w]

\* C2: invalidation completeness.  When the invalidator has processed a
\* utility statement that touches object O, every entry that recorded a
\* dependency on O before is absent from the store or has no plan.
InvalidationComplete ==
    [][\A w \in Backends :
          InvalidationStep(w) =>
             \A k \in pgsp_hash :
                \A i \in 1..Len(InvalidationStmt(w).oids) :
                   DependsOn(entries[k], MyDatabaseId, InvalidationStmt(w).classid,
                             InvalidationStmt(w).oids[i])
                   => (k \notin pgsp_hash' \/ entries'[k].plan = InvalidDsaPointer)]_vars

Capacity == Cardinality(pgsp_hash) <= pgsp_max

\* The store is full after a capacity eviction has run.
CapacityWitness == dealloc > 0 /\ Cardinality(pgsp_hash) = pgsp_max

\* C5: entry lock during LOCK-class DDL.  While a backend executes a utility
\* statement of kind DISCARD_AND_LOCK, every entry that depends on one of its
\* objects has lockers = 1: the UNLOCK decrement happens after the utility
\* has run, not before.
LockedDuringDDL ==
    \A w \in Backends :
        (pc[w] = "utility_exec" /\ util[w].kind = PGSP_DISCARD_AND_LOCK) =>
            \A k \in pgsp_hash :
                \A i \in 1..Len(util[w].oids) :
                    DependsOn(entries[k], MyDatabaseId, util[w].classid,
                              util[w].oids[i])
                    => entries[k].lockers = 1

\* C6: no caching while locked.  In every reachable state an entry whose
\* lockers counter is not zero has no plan.
NoCachingWhileLocked ==
    \A k \in pgsp_hash :
        entries[k].lockers # 0 => entries[k].plan = InvalidDsaPointer

\* C7: the cache is advisory.  A plan request never raises an error that
\* originates in the cache: it ends with the stored plan or with the plan of
\* the host planner.
CacheIsAdvisory ==
    \A w \in Backends :
        pc[w] # "error"

\* C8: lock release before planning.  A backend holds no lock on the store
\* when it invokes the host planner and when the hook returns, and every
\* release of the lock is executed by a backend that holds it.
LockReleaseBalanced ==
    [][\A w \in Backends :
          /\ pc'[w] \in {"plan", "returned_cached", "returned_planned"}
                => w \notin lock_shared'
          /\ (pc[w] = "release" /\ pc'[w] # "release") => LWLockHeldByMe(w)
          /\ (pc[w] = "alloc" /\ pc'[w] = "error") => LWLockHeldByMe(w)]_vars

\* C9: arbitration decision.  For a stored plan, when num_custom_plans is
\* below the threshold the stored plan is not used and the caller is told to
\* record the cost of the custom plan, which adds the cost to
\* total_custom_cost and 1 to num_custom_plans; otherwise the stored plan is
\* used exactly when generic_cost is below the average custom cost.
ArbitrationDecision ==
    [][\A w \in Backends :
          /\ (pc[w] = "idle" /\ pc'[w] # "idle" /\ req'[w].entry) =>
                LET e == entries[req'[w].key] IN
                IF e.num_custom_plans < pgsp_threshold
                THEN pc'[w] = "release" /\ req'[w].accum_custom_stats
                ELSE /\ ~req'[w].accum_custom_stats
                     /\ pc'[w] = "exec_locks"
                          <=> e.total_custom_cost > e.generic_cost * e.num_custom_plans
          /\ (pc[w] = "plan" /\ req[w].entry /\ req[w].accum_custom_stats) =>
                pc'[w] = "accum"
          /\ (pc[w] = "accum" /\ pc'[w] # "accum" /\ req[w].key \in pgsp_hash) =>
                LET e == entries[req[w].key]
                    f == entries'[req[w].key]
                IN /\ f.num_custom_plans = e.num_custom_plans + 1
                   /\ f.total_custom_cost - e.total_custom_cost \in ScenarioCosts]_vars

\* The stored plan has been chosen after custom plans were accumulated up to
\* a threshold above 1.
ArbitrationWitness ==
    \E w \in Backends :
        /\ pc[w] = "exec_locks"
        /\ pgsp_threshold > 1
        /\ entries[req[w].key].num_custom_plans = pgsp_threshold
        /\ entries[req[w].key].bypass = 1

\* generic_cost < total_custom_cost / num_custom_plans for the entry of Key1.
GenericBelowAverage ==
    entries[Key1].generic_cost * entries[Key1].num_custom_plans
        < entries[Key1].total_custom_cost

\* C10: insert-hit-bypass sequence.  With the default threshold T = 4, one
\* backend, a planning time not below the minimum and a generic cost below
\* the average custom cost: after each of the first T requests for the same
\* query num_custom_plans is the number of requests and bypass is 0; request
\* T + 1 is the first that returns the stored plan, and after it bypass is 1
\* and num_custom_plans is still T.
InsertHitBypass ==
    pgsp_threshold = DefaultThreshold =>
        LET e == entries[Key1]
            w == ScenarioBackend
        IN /\ (pc[w] = "idle" /\ nrequests \in 1..DefaultThreshold) =>
                 /\ Key1 \in pgsp_hash
                 /\ e.num_custom_plans = nrequests
                 /\ e.bypass = 0
           /\ pc[w] = "returned_cached" => nrequests >= DefaultThreshold
           /\ (pc[w] \in {"returned_cached", "returned_planned"}
               /\ nrequests = DefaultThreshold /\ GenericBelowAverage) =>
                 pc[w] = "returned_cached"
           /\ (pc[w] = "idle" /\ nrequests = DefaultThreshold + 1
               /\ GenericBelowAverage) =>
                 e.bypass = 1 /\ e.num_custom_plans = DefaultThreshold

\* Request T + 1 has returned the stored plan.
InsertHitBypassWitness ==
    /\ pgsp_threshold = DefaultThreshold
    /\ pc[ScenarioBackend] = "idle"
    /\ nrequests = DefaultThreshold + 1
    /\ GenericBelowAverage
    /\ entries[Key1].bypass = 1

(***************************************************************************)
(* Concurrent arbitration: the backends plan the same query at the same    *)
(* time; no allocation fails and no utility statement runs.                *)
(***************************************************************************)
NextConcurrent ==
    \/ \E w \in Backends : HookLookup(w, Key1)
    \/ \E w \in Backends : HookRecheck(w)
    \/ \E w \in Backends : HookRelease(w)
    \/ \E w \in Backends : HookPlanWith(w, ScenarioPlanTimes)
    \/ \E w \in Backends : HookAllocateWith(w, {FALSE})
    \/ \E w \in Backends : HookRegisterWith(w, {FALSE})
    \/ \E w \in Backends : HookEntryAllocWith(w, ScenarioCosts)
    \/ \E w \in Backends : HookAccum(w)
    \/ \E w \in Backends : HookReturnWith(w, 1)

SpecConcurrent == InitScenario /\ [][NextConcurrent]_vars

\* The entry of key has a plan, num_custom_plans has reached the threshold
\* and the average custom cost exceeds generic_cost.
AverageExceedsGeneric(key) ==
    /\ key \in pgsp_hash
    /\ entries[key].plan # InvalidDsaPointer
    /\ entries[key].num_custom_plans >= pgsp_threshold
    /\ entries[key].generic_cost * entries[key].num_custom_plans
          < entries[key].total_custom_cost

\* C11: arbitration monotonicity.  Once the average custom cost of an entry
\* exceeds its generic_cost with num_custom_plans >= threshold, this remains
\* so as long as the entry is not evicted and keeps its plan and its
\* generic_cost, and every plan request that hits the entry then chooses the
\* stored plan.
ArbitrationMonotone ==
    [][\A k \in Keys :
          AverageExceedsGeneric(k) =>
             /\ (k \in pgsp_hash' /\ entries'[k].plan # InvalidDsaPointer
                 /\ dealloc' = dealloc
                 /\ entries'[k].generic_cost = entries[k].generic_cost)
                   => AverageExceedsGeneric(k)'
             /\ \A w \in Backends :
                   (pc[w] = "idle" /\ pc'[w] # "idle" /\ req'[w].key = k)
                      => pc'[w] = "exec_locks"]_vars

\* The step of backend w that applies a DISCARD-kind invalidation.
DiscardStep(w) ==
    /\ pc[w] = "utility_exec" /\ pc'[w] = "idle"
    /\ util[w].kind = PGSP_DISCARD

\* The fingerprints the reverse index lists for one of the objects of stmt.
ListedFor(stmt) ==
    UNION { pgsp_rdepend[RdependKey(MyDatabaseId, stmt.classid,
                                    IF stmt.classid # RELOID
                                    THEN GetSysCacheHashValue1(stmt.oids[i])
                                    ELSE stmt.oids[i])] :
            i \in 1..Len(stmt.oids) }

\* The fields of an entry that a DISCARD leaves alone.
KeptByDiscard(e) ==
    <<e.bypass, e.total_custom_cost, e.num_custom_plans, e.rels, e.num_rels,
      e.rdeps, e.num_rdeps, e.lockers, e.usage, e.generic_cost>>

\* A DISCARD-kind invalidation clears the plan of the listed entries that
\* have one, frees exactly the bytes of these plans, adds 1 to discard, and
\* changes nothing else; an entry without plan is left as it is.
DiscardFrame ==
    \A w \in Backends :
        DiscardStep(w) =>
            /\ pgsp_hash' = pgsp_hash
            /\ pgsp_rdepend' = pgsp_rdepend
            /\ alloced_size' = alloced_size
                 - SumBytes([k \in Keys |->
                                [plan |-> entries[k].plan, len |-> entries[k].len,
                                 num_rels |-> 0, num_rdeps |-> 0]],
                            ListedFor(util[w]) \cap pgsp_hash)
            /\ \A k \in pgsp_hash :
                  IF k \in ListedFor(util[w]) /\ entries[k].plan # InvalidDsaPointer
                  THEN /\ entries'[k].plan = InvalidDsaPointer
                       /\ entries'[k].len = 0
                       /\ entries'[k].discard = entries[k].discard + 1
                       /\ KeptByDiscard(entries'[k]) = KeptByDiscard(entries[k])
                  ELSE entries'[k] = entries[k]

\* discard never decreases while the entry stays in the store.
DiscardNeverDecreases ==
    \A k \in pgsp_hash :
        (k \in pgsp_hash' /\ dealloc' = dealloc)
            => entries'[k].discard >= entries[k].discard

\* The insertion step of backend w finds its key present, without plan and
\* not locked.
ReattachStep(w) ==
    /\ pc[w] = "entry_alloc" /\ pc'[w] # "entry_alloc"
    /\ req[w].key \in pgsp_hash
    /\ entries[req[w].key].plan = InvalidDsaPointer
    /\ entries[req[w].key].lockers = 0

\* The plan is attached to the entry that is there: the entry is not created
\* again.
ReattachKeepsEntry ==
    \A w \in Backends :
        ReattachStep(w) =>
            LET k == req[w].key IN
            /\ k \in pgsp_hash'
            /\ entries'[k].plan # InvalidDsaPointer
            /\ entries'[k].discard = entries[k].discard
            /\ entries'[k].bypass = entries[k].bypass
            /\ entries'[k].num_custom_plans = entries[k].num_custom_plans
            /\ entries'[k].total_custom_cost = entries[k].total_custom_cost

\* C12: DISCARD keeps the entry.  A DISCARD-kind invalidation of an entry
\* with a plan clears plan and len, frees exactly the bytes of the plan, adds
\* exactly 1 to discard and leaves the entry in the store with its counters,
\* dependency arrays and registrations; discard never decreases and is not
\* incremented when there was no plan; the next insertion for the key
\* attaches a plan to the same entry without creating it again.
DiscardKeepsEntry ==
    [][DiscardFrame /\ DiscardNeverDecreases /\ ReattachKeepsEntry]_vars

\* The step of backend w that applies an EVICT-kind invalidation.
EvictStep(w) ==
    /\ pc[w] = "utility_exec" /\ pc'[w] = "idle"
    /\ util[w].kind = PGSP_EVICT

\* The entries of the store that depend on one of the objects of stmt.
Dependents(stmt) ==
    {k \in pgsp_hash :
        \E i \in 1..Len(stmt.oids) :
            DependsOn(entries[k], MyDatabaseId, stmt.classid, stmt.oids[i])}

\* No entry that depended on an object of the statement remains.
EvictRemovesDependents ==
    \A w \in Backends :
        EvictStep(w) => Dependents(util[w]) \cap pgsp_hash' = {}

\* The entries the step removes are removed completely: their bytes are
\* subtracted once and their fingerprint is unregistered from every object
\* they depended on; the other entries are untouched.
EvictRemovesCompletely ==
    \A w \in Backends :
        EvictStep(w) =>
            LET removed == pgsp_hash \ pgsp_hash' IN
            /\ pgsp_hash' \subseteq pgsp_hash
            /\ alloced_size' = alloced_size - SumBytes(entries, removed)
            /\ \A k \in removed :
                  /\ \A i \in 1..entries[k].num_rels :
                        k \notin pgsp_rdepend'[RdependKey(k.dbid, RELOID,
                                                          entries[k].rels[i])]
                  /\ \A i \in 1..entries[k].num_rdeps :
                        k \notin pgsp_rdepend'[entries[k].rdeps[i]]
            /\ \A k \in pgsp_hash' : entries'[k] = entries[k]

\* C13: EVICT removes completely.  After an EVICT-kind invalidation for an
\* object no entry that depended on it remains in the store, the bytes of
\* every removed entry are subtracted from alloced_size exactly once, and
\* its fingerprint is unregistered from every object it depended on.
EvictRemoves ==
    [][EvictRemovesDependents /\ EvictRemovesCompletely]_vars

(***************************************************************************)
(* The eviction scenarios: pg_shared_plans.max is 5 or 11 and the store is *)
(* full; q1 has been served from the store ten times, q2..q5 at most once, *)
(* the others once; one backend then runs plan requests.                   *)
(***************************************************************************)
\* The entry of a query whose plan was cached with the given planning time
\* and served from the store hits times since (pgsp_entry_alloc, then
\* pgsp_choose_cache_plan for every hit).
CachedEntry(hits, plantime) ==
    [plan |-> "planD", len |-> PlannedStmt("planD").len,
     rels |-> <<>>, num_rels |-> 0,
     rdeps |-> <<>>, num_rdeps |-> 0,
     plantime |-> plantime,
     generic_cost |-> PlannedStmt("planD").generic_cost,
     total_custom_cost |-> CHOOSE c \in CustomCosts : TRUE,
     num_custom_plans |-> 1,
     bypass |-> hits,
     usage |-> PGSP_USAGE_INIT + hits * plantime * 100,
     discard |-> 0, lockers |-> 0]

InitEviction ==
    /\ pgsp_max \in {ScenarioMax, LargeMax}
    /\ pgsp_threshold = 1
    /\ pgsp_hash = {Query(q) : q \in 1..pgsp_max}
    /\ \E hits \in [2..ScenarioMax -> 0..1] :
         entries = [k \in EvictionKeys |->
                      IF k.queryid = 1
                      THEN CachedEntry(2 * ScenarioMax, pgsp_min_plantime)
                      ELSE IF k.queryid <= ScenarioMax
                           THEN CachedEntry(hits[k.queryid], pgsp_min_plantime)
                           ELSE IF k.queryid <= pgsp_max
                                THEN CachedEntry(1, pgsp_min_plantime + 5)
                                ELSE EmptyEntry]
    /\ pgsp_rdepend = [rkey \in RdependKeys |-> {}]
    /\ alloced_size = pgsp_max * PlannedStmt("planD").len
    /\ dealloc = 0
    /\ cur_median_usage = ASSUMED_MEDIAN_INIT
    /\ stats_reset = 0
    /\ lock_shared = {}
    /\ pc = [w \in Backends |-> "idle"]
    /\ req = [w \in Backends |-> EmptyReq]
    /\ context = [w \in Backends |-> EmptyContext]
    /\ util = [w \in Backends |-> EmptyUtil]
    /\ nrequests = 0
    /\ pgsp_ro = [w \in Backends |-> "off"]

NextEviction ==
    \/ \E key \in EvictionKeys : HookLookup(ScenarioBackend, key)
    \/ HookRecheck(ScenarioBackend)
    \/ HookRelease(ScenarioBackend)
    \/ HookPlanWith(ScenarioBackend, ScenarioPlanTimes)
    \/ HookAllocateWith(ScenarioBackend, {FALSE})
    \/ HookRegisterWith(ScenarioBackend, {FALSE})
    \/ HookEntryAllocWith(ScenarioBackend, CustomCosts)
    \/ HookReturnWith(ScenarioBackend, 1)

SpecEviction == InitEviction /\ [][NextEviction]_vars

\* The step of pgsp_cache_plan that inserts a query that is not in the
\* store while the store holds pg_shared_plans.max entries.
EvictionInsertStep(w) ==
    /\ pc[w] = "entry_alloc" /\ pc'[w] = "returned_planned"
    /\ req[w].key \notin pgsp_hash
    /\ Cardinality(pgsp_hash) >= pgsp_max

\* q1 has the highest usage of the store.
HighestUsage(key) ==
    /\ key \in pgsp_hash
    /\ \A k \in pgsp_hash \ {key} : entries[k].usage < entries[key].usage

\* C14: eviction scenario.  With max = 5 and q1..q5 cached, q1 having the
\* highest usage, the insertion of q6 runs a capacity eviction after which
\* the store holds q1 and four other queries: q1 is not evicted, and no
\* evicted query had a higher usage than a query that was kept.
EvictionScenario ==
    [][\A w \in Backends :
          (EvictionInsertStep(w) /\ pgsp_max = ScenarioMax
                                 /\ HighestUsage(Query(1))) =>
              /\ dealloc' > dealloc
              /\ Query(1) \in pgsp_hash'
              /\ Cardinality(pgsp_hash') = ScenarioMax
              /\ \A k \in pgsp_hash \ pgsp_hash', j \in pgsp_hash \cap pgsp_hash' :
                     entries[k].usage <= entries[j].usage]_vars

\* ceil(0.05 * n)
CeilingPercent(n) == (n * USAGE_DEALLOC_PERCENT + 99) \div 100

\* The entries a step removes from the store.
Removed == pgsp_hash \ pgsp_hash'

\* Every entry that stays has its usage decayed by USAGE_DECREASE_FACTOR.
EvictionDecays ==
    \A k \in pgsp_hash \cap pgsp_hash' :
        entries'[k].usage = (entries[k].usage * USAGE_DECREASE_FACTOR) \div 100

\* No removed entry had a higher usage than an entry that stays.
EvictionLowestFirst ==
    \A k \in Removed, j \in pgsp_hash \cap pgsp_hash' :
        entries[k].usage <= entries[j].usage

Created == pgsp_hash' \ pgsp_hash

\* C16: initial usage of a new entry.  Every entry that is created gets as
\* usage the median recorded by the most recent capacity eviction, or the
\* initial assumed median when no eviction has run yet.
InitialUsageIsMedian ==
    [][\A k \in Created : entries'[k].usage = cur_median_usage']_vars

(***************************************************************************)
(* The read_only scenario: one backend runs plan requests and utility      *)
(* statements inside transaction blocks and sets read_only itself.         *)
(***************************************************************************)
NextReadOnly ==
    \/ \E key \in Keys : HookLookup(ScenarioBackend, key)
    \/ HookRecheck(ScenarioBackend)
    \/ HookRelease(ScenarioBackend)
    \/ HookPlanWith(ScenarioBackend, PlanTimes)
    \/ HookAllocateWith(ScenarioBackend, {FALSE})
    \/ HookRegisterWith(ScenarioBackend, {FALSE})
    \/ HookEntryAllocWith(ScenarioBackend, CustomCosts)
    \/ HookReturnWith(ScenarioBackend, 1)
    \/ \E stmt \in UtilityStmts : UtilityStart(ScenarioBackend, stmt)
    \/ UtilityDowngrade(ScenarioBackend)
    \/ UtilityPostWith(ScenarioBackend, TRUE)
    \/ \E on \in BOOLEAN : SetReadOnly(ScenarioBackend, on)
    \/ TransactionEnd(ScenarioBackend)

SpecReadOnly == Init /\ [][NextReadOnly]_vars

\* The step of pgsp_cache_plan of backend w stores something: it creates an
\* entry or attaches a plan to an entry that had none.
CachesPlan(w) ==
    /\ pc[w] = "entry_alloc" /\ pc'[w] = "returned_planned"
    /\ \/ pgsp_hash' # pgsp_hash
       \/ \E k \in pgsp_hash : /\ entries[k].plan = InvalidDsaPointer
                               /\ entries'[k].plan # InvalidDsaPointer

\* C17: read_only suppresses caching.  While read_only is on for a backend,
\* set in the session or set by the invalidator after a utility statement
\* of its transaction, no plan request of the backend creates an entry or
\* attaches a plan to an entry.
ReadOnlySuppressesCaching ==
    [][\A w \in Backends : pgsp_ro[w] # "off" => ~CachesPlan(w)]_vars

\* Backend w is in the part of a plan request that caches the plan:
\* pgsp_cache_plan, from pgsp_allocate_plan to pgsp_entry_alloc.
InCachePlan(w) == pc[w] \in {"alloc", "register", "entry_alloc"}

\* The planner has returned to backend w, whose lookup had found no entry
\* with a plan.
PlannedAfterMiss(w) ==
    /\ pc[w] = "plan" /\ pc'[w] # "plan"
    /\ ~req[w].entry

\* C18 (as amended): minimum planning time.  A plan request that found no
\* entry with a plan caches its plan only if the measured planning time is
\* at least min_plan_time; when it is below, the request returns and creates
\* no entry, attaches no plan and leaves the reverse index and alloced_size
\* unchanged.
MinimumPlanTime ==
    [][\A w \in Backends :
          /\ PlannedAfterMiss(w) =>
                /\ InCachePlan(w)' <=> req'[w].plantime >= pgsp_min_plantime
                /\ UNCHANGED shared
          /\ (InCachePlan(w) /\ pc'[w] # pc[w]) =>
                req[w].plantime >= pgsp_min_plantime]_vars

\* A plan is in the store that took exactly min_plan_time to plan.
MinimumPlanTimeWitness ==
    \E k \in pgsp_hash :
        /\ entries[k].plan # InvalidDsaPointer
        /\ entries[k].plantime = pgsp_min_plantime

\* C18 (as stated): the plan is cached only if the planning time strictly
\* exceeded min_plan_time; at min_plan_time or below nothing is cached.
MinimumPlanTimeStrict ==
    [][\A w \in Backends :
          /\ PlannedAfterMiss(w) =>
                /\ InCachePlan(w)' <=> req'[w].plantime > pgsp_min_plantime
                /\ UNCHANGED shared
          /\ (InCachePlan(w) /\ pc'[w] # pc[w]) =>
                req[w].plantime > pgsp_min_plantime]_vars

\* The step of backend w in which pgsp_allocate_plan fails for the given
\* reason.
AllocateFails(w, reason) ==
    /\ req[w].failed = "none"
    /\ req'[w].failed = reason

\* The step of w leaves the store and the reverse index as they were and
\* gives back the bytes the insertion of w had allocated.
InsertionUnwound(w) ==
    /\ pgsp_hash' = pgsp_hash
    /\ entries' = entries
    /\ pgsp_rdepend' = pgsp_rdepend
    /\ alloced_size' = alloced_size - AttributedBytes(context[w])
    /\ context'[w] = EmptyContext

\* C19: arena-OOM unwind.  When an arena allocation of an insertion fails
\* (the plan buffer, the array of relations or the array of invalidation
\* items), the request goes on without error and without caching, and the
\* store, the fields of every entry, the reverse index and alloced_size are
\* what they were before the insertion began.
ArenaOOMUnwind ==
    [][\A w \in Backends :
          AllocateFails(w, "arena") =>
              /\ pc'[w] = "returned_planned"
              /\ InsertionUnwound(w)]_vars

\* C20: rdepend-saturated unwind.  When a registration of an insertion fails
\* because the list of the object holds rdepend_max fingerprints, the
\* reverse index after the failure equals the reverse index before the
\* insertion (the registrations an entry of the same key already had are
\* kept) and the arena arrays of the insertion are freed.
RdependSaturatedUnwind ==
    [][\A w \in Backends :
          AllocateFails(w, "rdepend") =>
              /\ pc'[w] = "returned_planned"
              /\ InsertionUnwound(w)]_vars

\* The arguments of pg_shared_plans_reset(0, 0, 0).
ResetAll == [userid |-> 0, dbid |-> 0, queryid |-> 0]

\* The step is a call of pg_shared_plans_reset with the arguments args.
ResetStep(args) == \E w \in Backends : Reset(w, args)

\* The fingerprint is in no list of the objects the entry e depends on.
UnregisteredFor(rd, key, e) ==
    /\ \A i \in 1..e.num_rels :
          key \notin rd[RdependKey(key.dbid, RELOID, e.rels[i])]
    /\ \A i \in 1..e.num_rdeps : key \notin rd[e.rdeps[i]]

\* C21: reset all.  pg_shared_plans_reset(0, 0, 0) removes every entry of
\* the store, gives back all their arena bytes, unregisters every removed
\* entry from the objects it depended on, sets dealloc to 0 and advances
\* stats_reset.
ResetAllEmpties ==
    [][ResetStep(ResetAll) =>
          /\ pgsp_hash' = {}
          /\ alloced_size' = alloced_size - SumBytes(entries, pgsp_hash)
          /\ \A k \in pgsp_hash : UnregisteredFor(pgsp_rdepend', k, entries[k])
          /\ dealloc' = 0
          /\ stats_reset' > stats_reset]_vars

\* A reset has emptied the store and cleared dealloc after a capacity
\* eviction had run (the eviction has left its median behind).
ResetAllWitness ==
    /\ pgsp_hash = {}
    /\ alloced_size = 0
    /\ dealloc = 0
    /\ stats_reset > 0
    /\ cur_median_usage # ASSUMED_MEDIAN_INIT

\* The entries of the store whose key matches every non-zero argument.
Matching(args) ==
    { k \in pgsp_hash :
        /\ (args.userid = 0 \/ k.userid = args.userid)
        /\ (args.dbid = 0 \/ k.dbid = args.dbid)
        /\ (args.queryid = 0 \/ k.queryid = args.queryid) }

\* C22: filtered reset.  pg_shared_plans_reset with a non-zero argument
\* removes exactly the entries whose key matches every non-zero argument;
\* every other entry keeps its plan, its counters and its registrations in
\* the reverse index; dealloc and stats_reset change only when the reset
\* has removed every entry that was in the store.
FilteredReset ==
    [][\A args \in ResetArgs \ {ResetAll} :
          ResetStep(args) =>
              /\ pgsp_hash' = pgsp_hash \ Matching(args)
              /\ \A k \in pgsp_hash' :
                    /\ entries'[k] = entries[k]
                    /\ \A rkey \in RdependKeys :
                          k \in pgsp_rdepend'[rkey] <=> k \in pgsp_rdepend[rkey]
              /\ alloced_size' = alloced_size - SumBytes(entries, Matching(args))
              /\ (dealloc' # dealloc \/ stats_reset' # stats_reset) =>
                    Matching(args) = pgsp_hash]_vars

\* A filtered reset has removed the entry of query 1, which a backend had
\* looked up, and kept the entry of query 2; no capacity eviction and no
\* full reset has run.
FilteredResetWitness ==
    /\ pgsp_hash = {Key2}
    /\ entries[Key2].plan # InvalidDsaPointer
    /\ stats_reset = 0
    /\ cur_median_usage = ASSUMED_MEDIAN_INIT
    /\ \E w \in Backends : pc[w] = "exec_locks" /\ req[w].key = Key1

\* The step of pgsp_cache_plan of backend w, whose lookup had missed, that
\* finds the entry another backend has inserted in the meantime.
SecondInsertion(w) ==
    /\ pc[w] = "entry_alloc" /\ pc'[w] = "returned_planned"
    /\ ~req[w].entry
    /\ req[w].key \in pgsp_hash
    /\ entries[req[w].key].plan # InvalidDsaPointer

\* The entry of key is the one that was there, with the dependency arrays
\* of the insertion of w.
KeepsFirstPlan(w, key) ==
    /\ key \in pgsp_hash'
    /\ entries'[key] = [entries[key] EXCEPT !.rels = context[w].rels,
                                           !.num_rels = context[w].num_rels,
                                           !.rdeps = context[w].rdeps,
                                           !.num_rdeps = context[w].num_rdeps]

\* The reverse index lists key for the dependencies of its entry and for
\* nothing else.
RegisteredExactly(key) ==
    \A rkey \in RdependKeys :
        key \in pgsp_rdepend'[rkey] <=>
            \/ rkey.classid = RELOID
               /\ \E i \in 1..entries'[key].num_rels : entries'[key].rels[i] = rkey.oid
            \/ \E i \in 1..entries'[key].num_rdeps : entries'[key].rdeps[i] = rkey

\* C23: concurrent insertion of the same missing key.  When two backends
\* have missed the same key and both insert, the insertion of the second
\* leaves one entry for the key that holds the plan of the first, frees the
\* plan buffer of the second, leaves alloced_size counting one plan and one
\* set of dependency arrays, and the reverse index lists the key for
\* exactly the dependencies recorded in the entry.
ConcurrentInsertion ==
    [][\A w \in Backends :
          SecondInsertion(w) =>
              LET key == req[w].key IN
              /\ KeepsFirstPlan(w, key)
              /\ context'[w] = EmptyContext
              /\ alloced_size' = alloced_size - context[w].len
                                 - entries[key].num_rels * SizeofOid
                                 - entries[key].num_rdeps * SizeofRdependKey
              /\ RegisteredExactly(key)]_vars

(***************************************************************************)
(***************************************************************************)
(* The classification of the utility statements: pgsp_utility_pre_exec and *)
(* pgsp_utility_post_exec.  In the catalog of the model Rel2 is a          *)
(* partition of Rel1, Idx1 is an index of Rel1 and Idx2 an index of Rel2.  *)
(***************************************************************************)
Idx1 == 16386
Idx2 == 16387

ShareUpdateExclusiveLock == 4
AccessExclusiveLock == 8

\* RangeVarGetRelidExtended(rel, lockmode, RVR_MISSING_OK, NULL, NULL)
RangeVarGetRelidExtended(name) ==
    CASE name = "rel1" -> Rel1
      [] name = "rel2" -> Rel2
      [] name = "idx1" -> Idx1
      [] name = "idx2" -> Idx2
      [] OTHER -> InvalidOid

\* IndexGetRelation(indoid, true)
IndexGetRelation(indoid) ==
    IF indoid = Idx1 THEN Rel1 ELSE IF indoid = Idx2 THEN Rel2 ELSE InvalidOid

\* pgsp_get_inheritance_ancestors(oid), get_partition_ancestors(oid)
pgsp_get_inheritance_ancestors(oid) == IF oid = Rel2 THEN <<Rel1>> ELSE <<>>

\* find_all_inheritors(oid, AccessShareLock, NULL): the relation and its
\* descendants.
find_all_inheritors(oid) == IF oid = Rel1 THEN <<Rel1, Rel2>> ELSE <<oid>>

\* The sub-commands of ALTER TABLE.
AlterTableCmd(subtype, concurrent) == [subtype |-> subtype, concurrent |-> concurrent]

\* AlterTableGetLockLevel(cmds): the strongest lock a sub-command needs.
RECURSIVE AlterTableGetLockLevel(_)
AlterTableGetLockLevel(cmds) ==
    IF cmds = <<>> THEN ShareUpdateExclusiveLock
    ELSE LET cmd == Head(cmds)
             level == IF \/ cmd.subtype \in {"AT_SetStatistics", "AT_AttachPartition"}
                         \/ cmd.subtype = "AT_DetachPartition" /\ cmd.concurrent
                      THEN ShareUpdateExclusiveLock
                      ELSE AccessExclusiveLock
         IN Max(level, AlterTableGetLockLevel(Tail(cmds)))

\* The statements of the model.
AlterTableStmts ==
    { [type |-> "AlterTableStmt", relation |-> rel, cmds |-> cmds] :
        rel \in {"rel1", "rel2"},
        cmds \in { <<AlterTableCmd("AT_AddColumn", FALSE)>>,
                   <<AlterTableCmd("AT_AddColumn", FALSE),
                     AlterTableCmd("AT_DropColumn", FALSE)>>,
                   <<AlterTableCmd("AT_DetachPartition", FALSE)>>,
                   <<AlterTableCmd("AT_DetachPartition", TRUE)>>,
                   <<AlterTableCmd("AT_AttachPartition", FALSE)>> } }

DropStmts ==
    { [type |-> "DropStmt", removeType |-> "OBJECT_INDEX",
       objects |-> objects, concurrent |-> concurrent] :
        objects \in { <<"idx1">>, <<"idx1", "idx2">>, <<"missing", "idx2">> },
        concurrent \in BOOLEAN }
    \cup { [type |-> "DropStmt", removeType |-> "OBJECT_TABLE",
            objects |-> <<"missing", "rel2">>, concurrent |-> FALSE] }

ReindexStmts ==
    { [type |-> "ReindexStmt", kind |-> "REINDEX_OBJECT_INDEX",
       name |-> "", relation |-> "idx1", concurrently |-> concurrently] :
        concurrently \in BOOLEAN }
    \cup { [type |-> "ReindexStmt", kind |-> "REINDEX_OBJECT_TABLE",
            name |-> "", relation |-> "rel2", concurrently |-> FALSE] }
    \cup { [type |-> "ReindexStmt", kind |-> kind,
            name |-> "name", relation |-> "", concurrently |-> concurrently] :
             kind \in {"REINDEX_OBJECT_SCHEMA", "REINDEX_OBJECT_DATABASE"},
             concurrently \in BOOLEAN }

Parsetrees ==
    AlterTableStmts \cup DropStmts \cup ReindexStmts
    \cup { [type |-> "AlterTSDictionaryStmt"] }

\* pgspUtilityContext after the memset: no oid collected.  The statements
\* of the model collect oids of one kind and one class; error records that
\* the classification raised an ERROR.
EmptyOids ==
    [kind |-> "none", classid |-> RELOID, oids |-> <<>>,
     reset_current_db |-> FALSE, error |-> FALSE]

AddOid(c, kind, classid, oid) ==
    IF oid = InvalidOid THEN c
    ELSE [c EXCEPT !.kind = kind, !.classid = classid,
                   !.oids = list_append_unique_oid(Append(c.oids, oid),
                                                   Len(c.oids) + 1)]

AddOids(c, kind, classid, oids) ==
    IF oids = <<>> THEN c
    ELSE [c EXCEPT !.kind = kind, !.classid = classid,
                   !.oids = list_append_unique_oid(c.oids \o oids,
                                                   Len(c.oids) + Len(oids))]

discard_oid(classid, oid, c) == AddOid(c, PGSP_DISCARD, classid, oid)
discard_oids(classid, oids, c) == AddOids(c, PGSP_DISCARD, classid, oids)
lock_oid(classid, oid, c) == AddOid(c, PGSP_DISCARD_AND_LOCK, classid, oid)
lock_oids(classid, oids, c) == AddOids(c, PGSP_DISCARD_AND_LOCK, classid, oids)
remove_oid(classid, oid, c) == AddOid(c, PGSP_EVICT, classid, oid)

\* case OBJECT_INDEX: foreach(cell, drop->objects), from object i on.  A
\* name or an index that does not resolve leaves the loop (break).
RECURSIVE DropIndexes(_, _, _, _)
DropIndexes(objects, i, concurrent, c) ==
    IF i > Len(objects) THEN c
    ELSE LET indoid == RangeVarGetRelidExtended(objects[i])
             heapoid == IndexGetRelation(indoid)
         IN IF indoid = InvalidOid \/ heapoid = InvalidOid THEN c
            ELSE DropIndexes(objects, i + 1, concurrent,
                             IF concurrent THEN lock_oid(RELOID, heapoid, c)
                             ELSE discard_oid(RELOID, heapoid, c))

\* foreach(cell, objs_remove): a name that does not resolve is skipped.
RECURSIVE RemoveObjects(_, _, _)
RemoveObjects(objects, n, c) ==
    IF n = 0 THEN c
    ELSE remove_oid(RELOID, RangeVarGetRelidExtended(objects[n]),
                    RemoveObjects(objects, n - 1, c))

\* The ReindexStmt branch.  A statement that names a schema or a database
\* sets reset_current_db, has no relation and reaches the default case of
\* the switch on the kind, which raises an ERROR (in a build with
\* assertions Assert(rel != NULL) fails before): the statement does not run.
ReindexPreExec(rdx, inblock, c) ==
    IF rdx.concurrently /\ inblock THEN c
    ELSE LET c1 == IF rdx.name # "" THEN [c EXCEPT !.reset_current_db = TRUE]
                   ELSE c
             oid == RangeVarGetRelidExtended(rdx.relation)
             heapoid == IF rdx.kind = "REINDEX_OBJECT_INDEX"
                        THEN IndexGetRelation(oid) ELSE oid
         IN IF rdx.kind \in {"REINDEX_OBJECT_INDEX", "REINDEX_OBJECT_TABLE"}
            THEN IF oid = InvalidOid \/ heapoid = InvalidOid THEN c1
                 ELSE IF rdx.concurrently THEN lock_oid(RELOID, heapoid, c1)
                 ELSE discard_oid(RELOID, heapoid, c1)
            ELSE [c1 EXCEPT !.error = TRUE]

\* The AlterTableStmt branch of pgsp_utility_pre_exec: DETACH PARTITION
\* CONCURRENTLY locks the entries of the table and of its ancestors.
RECURSIVE AlterTablePreExec(_, _, _, _)
AlterTablePreExec(atstmt, i, inblock, c) ==
    IF i > Len(atstmt.cmds) THEN c
    ELSE LET cmd == atstmt.cmds[i]
             oid == RangeVarGetRelidExtended(atstmt.relation)
         IN IF cmd.subtype = "AT_DetachPartition" /\ cmd.concurrent
            THEN IF inblock THEN c
                 ELSE AlterTablePreExec(atstmt, i + 1, inblock,
                         IF oid = InvalidOid THEN c
                         ELSE lock_oids(RELOID, pgsp_get_inheritance_ancestors(oid),
                                        lock_oid(RELOID, oid, c)))
            ELSE AlterTablePreExec(atstmt, i + 1, inblock, c)

pgsp_utility_pre_exec(parsetree, inblock, c) ==
    CASE parsetree.type = "DropStmt" ->
            IF parsetree.removeType = "OBJECT_INDEX"
            THEN IF parsetree.concurrent /\ inblock THEN c
                 ELSE DropIndexes(parsetree.objects, 1, parsetree.concurrent, c)
            ELSE RemoveObjects(parsetree.objects, Len(parsetree.objects), c)
      [] parsetree.type = "AlterTableStmt" ->
            AlterTablePreExec(parsetree, 1, inblock, c)
      [] parsetree.type = "AlterTSDictionaryStmt" ->
            IF inblock THEN [c EXCEPT !.error = TRUE]
            ELSE [c EXCEPT !.reset_current_db = TRUE]
      [] parsetree.type = "ReindexStmt" ->
            ReindexPreExec(parsetree, inblock, c)
      [] OTHER -> c

\* The other sub-commands of an ALTER TABLE that needs a weaker lock:
\* attaching a partition discards the plans of the table and its ancestors.
RECURSIVE AlterTablePartitionCmds(_, _, _)
AlterTablePartitionCmds(atstmt, n, c) ==
    IF n = 0 THEN c
    ELSE LET c1 == AlterTablePartitionCmds(atstmt, n - 1, c)
             cmd == atstmt.cmds[n]
             oid == RangeVarGetRelidExtended(atstmt.relation)
         IN IF \/ cmd.subtype \in {"AT_AttachPartition", "AT_DetachPartitionFinalize"}
               \/ cmd.subtype = "AT_DetachPartition" /\ ~cmd.concurrent
            THEN IF oid = InvalidOid THEN c1
                 ELSE discard_oids(RELOID, pgsp_get_inheritance_ancestors(oid),
                                   discard_oid(RELOID, oid, c1))
            ELSE c1

\* The inheritors are added when the statement has one sub-command that is
\* not DETACH PARTITION.
pgsp_utility_post_exec(parsetree, c) ==
    IF parsetree.type # "AlterTableStmt" THEN c
    ELSE IF AlterTableGetLockLevel(parsetree.cmds) >= AccessExclusiveLock
    THEN LET oid == RangeVarGetRelidExtended(parsetree.relation)
             c1 == discard_oids(RELOID, pgsp_get_inheritance_ancestors(oid),
                                discard_oid(RELOID, oid, c))
         IN IF oid = InvalidOid THEN c
            ELSE IF /\ Len(parsetree.cmds) = 1
                    /\ parsetree.cmds[1].subtype # "AT_DetachPartition"
                 THEN discard_oids(RELOID, find_all_inheritors(oid), c1)
                 ELSE c1
    ELSE AlterTablePartitionCmds(parsetree, Len(parsetree.cmds), c)

(***************************************************************************)
(* pgsp_ProcessUtility on a parse tree.  util holds the pgspUtilityContext *)
(* with the statement and whether it runs in a transaction block.          *)
(***************************************************************************)
UtilContext(c, parsetree, inblock) ==
    [kind |-> c.kind, classid |-> c.classid, oids |-> c.oids,
     reset_current_db |-> c.reset_current_db,
     parsetree |-> parsetree, inblock |-> inblock]

\* The hook is entered: memset(&util, 0, sizeof(pgspUtilityContext)).
UtilityBegin(w, parsetree, inblock) ==
    /\ pc[w] = "idle"
    /\ \A k \in Keys : entries[k].discard < MaxDiscard /\ entries[k].lockers < MaxLockers
    /\ parsetree.type = "AlterTSDictionaryStmt" => stats_reset < MaxResetTime
    /\ util' = [util EXCEPT ![w] = UtilContext(EmptyOids, parsetree, inblock)]
    /\ pc' = [pc EXCEPT ![w] = "utility_pre"]
    /\ UNCHANGED <<shared, pgsp_threshold, pgsp_max, pgsp_ro, nrequests,
                   lock_shared, req, context>>

\* pgsp_utility_pre_exec, then pgsp_utility_do_lock up to the release of the
\* exclusive lock.  An ERROR ends the statement: the utility does not run.
UtilityPreExec(w) ==
    /\ pc[w] = "utility_pre"
    /\ LET c == pgsp_utility_pre_exec(util[w].parsetree, util[w].inblock, EmptyOids)
       IN IF c.error
          THEN /\ util' = [util EXCEPT ![w] = EmptyUtil]
               /\ pc' = [pc EXCEPT ![w] = "idle"]
               /\ UNCHANGED shared
          ELSE /\ util' = [util EXCEPT ![w] =
                              UtilContext(c, util[w].parsetree, util[w].inblock)]
               /\ IF c.kind = PGSP_DISCARD_AND_LOCK
                  THEN /\ CanAcquireExclusive
                       /\ SetShared(EvictOids(SharedState, c.classid, c.oids,
                                              Len(c.oids), PGSP_DISCARD_AND_LOCK))
                       /\ pc' = [pc EXCEPT ![w] = "utility_downgrade"]
                  ELSE /\ pc' = [pc EXCEPT ![w] = "utility_exec"]
                       /\ UNCHANGED shared
    /\ UNCHANGED <<pgsp_threshold, pgsp_max, pgsp_ro, nrequests, lock_shared,
                   req, context>>

\* The utility has run: the reset of the current database, or
\* pgsp_utility_post_exec and the processing of the collected oids.
UtilityPostExec(w) ==
    /\ pc[w] = "utility_exec"
    /\ IF util[w].reset_current_db
       THEN /\ CanAcquireExclusive
            /\ \E now \in 1..MaxResetTime :
                 /\ now > stats_reset
                 /\ SetShared(pg_shared_plans_reset_internal(SharedState, InvalidOid,
                                                             MyDatabaseId, 0, now))
            /\ UNCHANGED <<lock_shared, pgsp_ro>>
       ELSE LET c == pgsp_utility_post_exec(util[w].parsetree, util[w])
            IN /\ IF c.kind = "none"
                  THEN UNCHANGED <<shared, lock_shared>>
                  ELSE IF c.kind = PGSP_DISCARD_AND_LOCK
                  THEN /\ LWLockHeldByMe(w)
                       /\ lock_shared' = lock_shared \ {w}
                       /\ UNCHANGED shared
                  ELSE /\ CanAcquireExclusive
                       /\ SetShared(EvictOids(SharedState, c.classid, c.oids,
                                              Len(c.oids), c.kind))
                       /\ UNCHANGED lock_shared
               /\ pgsp_ro' = [pgsp_ro EXCEPT ![w] =
                                 IF c.kind # "none" /\ util[w].inblock /\ @ = "off"
                                 THEN "local" ELSE @]
    /\ util' = [util EXCEPT ![w] = EmptyUtil]
    /\ pc' = [pc EXCEPT ![w] = "idle"]
    /\ UNCHANGED <<pgsp_threshold, pgsp_max, nrequests, req, context>>

(***************************************************************************)
(* The utility scenario: one backend runs plan requests and the utility    *)
(* statements of the model, in a transaction block or not.                 *)
(***************************************************************************)
NextUtility ==
    \/ \E key \in Keys : HookLookup(ScenarioBackend, key)
    \/ HookRecheck(ScenarioBackend)
    \/ HookRelease(ScenarioBackend)
    \/ HookPlanWith(ScenarioBackend, ScenarioPlanTimes)
    \/ HookAllocateWith(ScenarioBackend, {FALSE})
    \/ HookRegisterWith(ScenarioBackend, {FALSE})
    \/ HookEntryAllocWith(ScenarioBackend, ScenarioCosts)
    \/ HookReturnWith(ScenarioBackend, 1)
    \/ \E parsetree \in Parsetrees, inblock \in BOOLEAN :
          UtilityBegin(ScenarioBackend, parsetree, inblock)
    \/ UtilityPreExec(ScenarioBackend)
    \/ UtilityDowngrade(ScenarioBackend)
    \/ UtilityPostExec(ScenarioBackend)
    \/ TransactionEnd(ScenarioBackend)

SpecUtility == Init /\ [][NextUtility]_vars

(***************************************************************************)
(* ALTER TABLE.                                                            *)
(***************************************************************************)
\* The step of backend w that ends the processing of its utility statement
\* after the statement has run.
UtilityDone(w) == pc[w] = "utility_exec" /\ pc'[w] = "idle"

IsDetachPartition(atstmt) ==
    \E i \in 1..Len(atstmt.cmds) : atstmt.cmds[i].subtype = "AT_DetachPartition"

\* The relation of the statement, its ancestors and its inheritors.
AlteredFamily(atstmt) ==
    LET oid == RangeVarGetRelidExtended(atstmt.relation)
        up == pgsp_get_inheritance_ancestors(oid)
        down == find_all_inheritors(oid)
    IN {oid} \cup {up[i] : i \in 1..Len(up)} \cup {down[i] : i \in 1..Len(down)}

\* After the step, the entries that depended on one of the relations have
\* no plan.
PlansDiscarded(rels) ==
    \A k \in pgsp_hash :
       (\E oid \in rels : DependsOn(entries[k], MyDatabaseId, RELOID, oid))
          => (k \notin pgsp_hash' \/ entries'[k].plan = InvalidDsaPointer)

\* C24: an ALTER TABLE that requires ACCESS EXCLUSIVE and is not a DETACH
\* PARTITION discards the plans of every entry that depends on the
\* relation, on one of its ancestors or on one of its inheritors, whatever
\* the number of its sub-commands.
AlterTableDiscards ==
    [][\A w \in Backends :
          ( /\ UtilityDone(w)
            /\ util[w].parsetree.type = "AlterTableStmt"
            /\ AlterTableGetLockLevel(util[w].parsetree.cmds) >= AccessExclusiveLock
            /\ ~IsDetachPartition(util[w].parsetree) )
          => PlansDiscarded(AlteredFamily(util[w].parsetree))]_vars

(***************************************************************************)
(* REINDEX and DROP INDEX.                                                 *)
(***************************************************************************)
\* The step of backend w that ends its utility statement, after the
\* statement has run or by an ERROR of pgsp_utility_pre_exec.
UtilityEnds(w) == pc[w] \in {"utility_pre", "utility_exec"} /\ pc'[w] = "idle"

\* The statement of w is a REINDEX of a schema, a database or the system,
\* and not a REINDEX CONCURRENTLY inside a transaction block, which the
\* server rejects.
ReindexByName(w) ==
    /\ util[w].parsetree.type = "ReindexStmt"
    /\ util[w].parsetree.name # ""
    /\ ~(util[w].parsetree.concurrently /\ util[w].inblock)

\* C25: when a REINDEX by name (schema, database or system), concurrent or
\* not, has ended, the cache of the current database has been reset: no
\* entry of the current database remains in the store.
ReindexByNameResets ==
    [][\A w \in Backends :
          (UtilityEnds(w) /\ ReindexByName(w))
             => \A k \in pgsp_hash' : k.dbid # MyDatabaseId]_vars

\* The parent relations of the indexes a DROP INDEX names, for the names
\* that resolve.
IndexParents(drop) ==
    { IndexGetRelation(RangeVarGetRelidExtended(drop.objects[i])) :
        i \in 1..Len(drop.objects) } \ {InvalidOid}

\* C26: a DROP INDEX that is not concurrent discards the plans of the
\* entries that depend on the parent relation of each index it names; a
\* name that does not resolve does not prevent the parents of the other
\* indexes from being discarded.
DropIndexDiscards ==
    [][\A w \in Backends :
          ( /\ UtilityDone(w)
            /\ util[w].parsetree.type = "DropStmt"
            /\ util[w].parsetree.removeType = "OBJECT_INDEX"
            /\ ~util[w].parsetree.concurrent )
          => PlansDiscarded(IndexParents(util[w].parsetree))]_vars

(***************************************************************************)
(* The cost of a stored plan that is returned.  Costs are exact multiples  *)
(* of 1/CostUnit, so that every quotient of the computation is exact; the  *)
(* rounding of the floating point operations is not modelled.              *)
(***************************************************************************)
CostUnit == 12000

\* cpu_operator_cost, 0.0025 unless the setting is changed.
cpu_operator_cost == CostUnit \div 400

\* diff += 0.01: the safety margin.
SafetyMargin == CostUnit \div 100

\* total_cost = 0.001: the cost that replaces a cost that is not positive.
MinimalCost == CostUnit \div 1000

\* nb_rels = list_length(result->rtable)
NbRels(plan) == Len(PlannedStmt(plan).rtable)

\* The additional cost of plancache, for each time the plan is returned.
PlancacheDiff(nb_rels, threshold) ==
    (1000 * cpu_operator_cost * (nb_rels + 1) * PLANCACHE_THRESHOLD)
        \div (PLANCACHE_THRESHOLD - threshold) + SafetyMargin

\* Variant: a cost of zero is left as it is.
pgsp_bias_cost_NegativeOnly(total_cost, nb_rels, threshold, disable, bypass) ==
    IF threshold >= PLANCACHE_THRESHOLD THEN total_cost
    ELSE LET diff == IF disable
                     THEN IF bypass > PLANCACHE_THRESHOLD - threshold
                          THEN total_cost * 2
                          ELSE PlancacheDiff(nb_rels, threshold)
                               + total_cost * 2 * threshold
                     ELSE PlancacheDiff(nb_rels, threshold)
             cost == total_cost - diff
         IN IF ~disable /\ cost < 0 THEN MinimalCost ELSE cost

\* The block "Entry is still valid, keep going" of pgsp_planner_hook: the
\* total cost of the plan that is returned.
pgsp_bias_cost(total_cost, nb_rels, threshold, disable, bypass) ==
    IF threshold >= PLANCACHE_THRESHOLD THEN total_cost
    ELSE LET diff == IF disable
                     THEN IF bypass > PLANCACHE_THRESHOLD - threshold
                          THEN total_cost * 2
                          ELSE PlancacheDiff(nb_rels, threshold)
                               + total_cost * 2 * threshold
                     ELSE PlancacheDiff(nb_rels, threshold)
             cost == total_cost - diff
         IN IF ~disable /\ cost <= 0 THEN MinimalCost ELSE cost

\* The total costs the stored plan can have: the cost of the generic plan,
\* a small cost, and costs around the additional cost of plancache.
TotalCosts(plan, threshold) ==
    { PlannedStmt(plan).generic_cost * CostUnit, MinimalCost }
    \cup IF threshold >= PLANCACHE_THRESHOLD THEN {}
         ELSE { PlancacheDiff(NbRels(plan), threshold) + d :
                  d \in { 0 - MinimalCost, 0, MinimalCost \div 2, MinimalCost,
                          CostUnit } }

\* After pgsp_acquire_executor_locks: the check that the entry is still
\* valid, and the cost of the plan that is returned.  original_cost and
\* disable are history: the cost of the stored plan and the setting
\* pg_shared_plans.disable_plan_cache of the request.
HookRecheckCost(w) ==
    /\ pc[w] = "exec_locks"
    /\ LET key == req[w].key
           e == entries[key]
       IN IF key \notin pgsp_hash \/ e.plan = InvalidDsaPointer
             \/ e.discard # req[w].discard
          THEN /\ pc' = [pc EXCEPT ![w] = "release"]
               /\ req' = [req EXCEPT ![w].entry = FALSE,
                                     ![w].result = InvalidDsaPointer]
          ELSE /\ pc' = [pc EXCEPT ![w] = "returned_cached"]
               /\ \E total_cost \in TotalCosts(e.plan, pgsp_threshold),
                     disable \in BOOLEAN :
                    req' = [req EXCEPT ![w].result =
                              [plan |-> e.plan,
                               original_cost |-> total_cost,
                               disable |-> disable,
                               bypass |-> e.bypass,
                               total_cost |->
                                  pgsp_bias_cost(total_cost, NbRels(e.plan),
                                                 pgsp_threshold, disable,
                                                 e.bypass)]]
    /\ UNCHANGED <<shared, pgsp_threshold, pgsp_max, pgsp_ro, nrequests,
                   lock_shared, context, util>>

NextCost ==
    \/ HookLookup(ScenarioBackend, Key1)
    \/ HookRecheckCost(ScenarioBackend)
    \/ HookRelease(ScenarioBackend)
    \/ HookPlanWith(ScenarioBackend, ScenarioPlanTimes)
    \/ HookAllocateWith(ScenarioBackend, {FALSE})
    \/ HookRegisterWith(ScenarioBackend, {FALSE})
    \/ HookEntryAllocWith(ScenarioBackend, ScenarioCosts)
    \/ HookAccum(ScenarioBackend)
    \/ HookReturnWith(ScenarioBackend, 1)

SpecCost == InitScenario /\ [][NextCost]_vars

\* The plan request of w has returned the stored plan.
ReturnsStored(w) == pc[w] = "returned_cached"

\* C27: when a stored plan is returned with disable_plan_cache off and a
\* threshold below PLANCACHE_THRESHOLD, its total cost is the cost of the
\* stored plan minus diff = 1000 * cpu_operator_cost * (n_rels + 1) *
\* PLANCACHE_THRESHOLD / (PLANCACHE_THRESHOLD - threshold) + 0.01 when this
\* difference is positive, and 0.001 otherwise, so it is always positive;
\* with a threshold of PLANCACHE_THRESHOLD the cost is returned unchanged
\* and nothing is divided by zero.
CostBias ==
    \A w \in Backends :
       ReturnsStored(w) =>
          LET r == req[w].result
              diff == PlancacheDiff(NbRels(r.plan), pgsp_threshold)
          IN /\ pgsp_threshold = PLANCACHE_THRESHOLD
                   => r.total_cost = r.original_cost
             /\ (~r.disable /\ pgsp_threshold < PLANCACHE_THRESHOLD)
                   => /\ r.total_cost = IF r.original_cost - diff > 0
                                        THEN r.original_cost - diff
                                        ELSE MinimalCost
                      /\ r.total_cost > 0

\* A stored plan is returned, its cost minus diff is positive and below
\* 0.001, and that is the cost returned.
CostBiasWitness ==
    \E w \in Backends :
       /\ ReturnsStored(w)
       /\ ~req[w].result.disable
       /\ pgsp_threshold < PLANCACHE_THRESHOLD
       /\ req[w].result.total_cost > 0
       /\ req[w].result.total_cost < MinimalCost
       /\ req[w].result.total_cost =
             req[w].result.original_cost
             - PlancacheDiff(NbRels(req[w].result.plan), pgsp_threshold)

\* C27 as stated: the cost returned is max(0.001, original_cost - diff), so
\* it is never below 0.001.
CostBiasAsStated ==
    \A w \in Backends :
       (ReturnsStored(w) /\ ~req[w].result.disable
          /\ pgsp_threshold < PLANCACHE_THRESHOLD)
       => /\ req[w].result.total_cost =
                Max(MinimalCost,
                    req[w].result.original_cost
                    - PlancacheDiff(NbRels(req[w].result.plan), pgsp_threshold))
          /\ req[w].result.total_cost >= MinimalCost

(***************************************************************************)
(* The critical sections of an insertion.                                  *)
(***************************************************************************)
\* pgsp_allocate_plan has registered the dependencies of the insertion of
\* w and pgsp_entry_alloc has not run yet.
InsertionPending(w) == pc[w] = "entry_alloc"

\* The step is a lookup of the store by backend v.
LookupStep(v) == pc[v] = "idle" /\ pc'[v] \in {"release", "exec_locks"}

\* C28: the registrations of an insertion and the lookup and insertion in
\* the store that follow them are one critical section: between the two no
\* step of another backend modifies the shared state (insertion,
\* invalidation, eviction, reset) or looks the store up.
InsertionAtomic ==
    [][\A w \in Backends :
          (InsertionPending(w) /\ InsertionPending(w)')
             => /\ shared' = shared
                /\ \A v \in Backends \ {w} : ~LookupStep(v)]_vars

(***************************************************************************)
(* The LOCK protocol of the concurrent utility statements.                 *)
(***************************************************************************)
\* Backend w has released the exclusive lock of the LOCK step and has not
\* acquired the shared lock yet.
Downgrading(w) == pc[w] = "utility_downgrade"

\* Backend w runs a statement of the LOCK class.
InLockProtocol(w) ==
    pc[w] \in {"utility_downgrade", "utility_exec"}
    /\ util[w].kind = PGSP_DISCARD_AND_LOCK

\* C29: the downgrade of the LOCK protocol is atomic.  Between the step
\* that discards the plans and increments lockers and the start of the
\* shared hold no other backend holds the lock exclusively, so the store
\* is not modified in between; and when no statement of the LOCK class is
\* in progress no entry is left locked.  lockers is unsigned in the code:
\* the value -1 of the model is the counter wrapped to 2^32 - 1.
AtomicDowngrade ==
    [][/\ \A w \in Backends :
             (Downgrading(w) /\ Downgrading(w)') => shared' = shared
       /\ (\A w \in Backends : ~InLockProtocol(w)')
             => \A k \in pgsp_hash' : entries'[k].lockers = 0]_vars

\* The UNLOCK step of backend w.
UnlockStep(w) == pc[w] = "utility_downgrade" /\ pc'[w] = "utility_exec"

\* C30: lockers is balanced.  Every decrement of an UNLOCK step is applied
\* to an entry whose lockers is greater than 0, and lockers never wraps
\* below zero (the value -1 of the model is the unsigned counter wrapped
\* to 2^32 - 1), whatever the other backends insert, evict or create again
\* between the LOCK and the UNLOCK step.
BalancedLockers ==
    [][/\ \A w \in Backends :
             UnlockStep(w) =>
                \A k \in pgsp_hash :
                   entries'[k].lockers # entries[k].lockers
                      => entries[k].lockers > 0
       /\ \A k \in pgsp_hash' : entries'[k].lockers >= 0]_vars

(***************************************************************************)
(* The insertion against an entry that is present.                         *)
(***************************************************************************)
\* The step of pgsp_cache_plan of backend w.
InsertionStep(w) == pc[w] = "entry_alloc" /\ pc'[w] = "returned_planned"

\* The step of pgsp_cache_plan of backend w finds its key present, without
\* plan and locked.
LockedOutInsertion(w) ==
    /\ InsertionStep(w)
    /\ req[w].key \in pgsp_hash
    /\ entries[req[w].key].plan = InvalidDsaPointer
    /\ entries[req[w].key].lockers > 0

\* The bytes of the staging context of an insertion.
ContextBytes(c) == c.len + c.num_rels * SizeofOid + c.num_rdeps * SizeofRdependKey

\* C31: an insertion that is locked out is a no-op on the shared state.  It
\* frees its own plan and arrays and leaves the entry that exists and the
\* registrations of that entry in the reverse index as they were, so the
\* UNLOCK pass still reaches the entry through the reverse index.
LockedOutIsNoOp ==
    [][\A w \in Backends :
          LockedOutInsertion(w) =>
              LET key == req[w].key IN
              /\ pgsp_hash' = pgsp_hash
              /\ entries' = entries
              /\ context'[w] = EmptyContext
              /\ alloced_size' = alloced_size - ContextBytes(context[w])
              /\ \A i \in 1..entries[key].num_rels :
                    key \in pgsp_rdepend'[RdependKey(key.dbid, RELOID,
                                                     entries[key].rels[i])]
              /\ \A i \in 1..entries[key].num_rdeps :
                    key \in pgsp_rdepend'[entries[key].rdeps[i]]]_vars

\* C32: the capacity eviction is triggered only by the insertion of a key
\* that is absent.  An insertion whose key is present in the store, with or
\* without plan, runs no eviction and removes no entry, also when the
\* store holds pg_shared_plans.max entries.
EvictionOnlyForAbsentKey ==
    [][\A w \in Backends :
          (InsertionStep(w) /\ req[w].key \in pgsp_hash)
             => /\ dealloc' = dealloc
                /\ pgsp_hash \subseteq pgsp_hash'
                /\ cur_median_usage' = cur_median_usage]_vars

(***************************************************************************)
(* The reverse index and the store.                                        *)
(***************************************************************************)
\* C33: no dangling fingerprints.  In every state in which a backend can
\* hold the lock in shared mode (no state is inside an exclusive section),
\* every fingerprint of the reverse index is the key of an entry of the
\* store, as pg_shared_plans asserts for the keys it finds by relation.
NoDanglingFingerprints ==
    \A rkey \in RdependKeys : pgsp_rdepend[rkey] \subseteq pgsp_hash

(***************************************************************************)
(* The re-check of a stored plan and the bypass counter.                   *)
(***************************************************************************)
\* The re-check of backend w succeeds: the plan it deserialized is returned.
RecheckPasses(w) == pc[w] = "exec_locks" /\ pc'[w] = "returned_cached"

\* C34: the re-check detects every invalidation.  A request returns the
\* plan it deserialized only if the plan of the entry was not discarded,
\* evicted or replaced since the lookup, also when the entry was removed
\* and created again in between: so the plan returned is the plan the
\* entry holds at the re-check.
RecheckDetectsInvalidation ==
    [][\A w \in Backends :
          RecheckPasses(w) =>
             /\ req[w].key \in pgsp_hash
             /\ entries[req[w].key].plan = req[w].result]_vars

\* C35: bypass counts the requests that return the stored plan.  A request
\* that has incremented bypass (and usage) of its entry returns the plan
\* of that entry; a request whose re-check fails and that goes on to the
\* host planner has not incremented them.
BypassCountsReturns ==
    \A w \in Backends :
       req[w].bypassed => pc[w] \in {"exec_locks", "returned_cached"}

(***************************************************************************)
(* The insertion into a full store.                                        *)
(***************************************************************************)
\* One run of pgsp_entry_dealloc on a store that is not empty removes at
\* least one entry.
EvictionRunRemoves ==
    pgsp_hash # {} =>
       Cardinality(pgsp_entry_dealloc(SharedState).pgsp_hash) < Cardinality(pgsp_hash)

\* C36: a full store never makes an insertion fail.  Each eviction run
\* removes at least one entry, so the loop of pgsp_entry_alloc ends; the
\* insertion of a key that is absent, whose allocations and registrations
\* have succeeded, ends with the key in the store and holding the plan of
\* the insertion, after at least one eviction run when the store was full,
\* and the store holds at most pg_shared_plans.max entries.
StoreFullNeverFails ==
    [][/\ EvictionRunRemoves
       /\ \A w \in Backends :
             (InsertionStep(w) /\ req[w].key \notin pgsp_hash)
                => /\ req[w].key \in pgsp_hash'
                   /\ entries'[req[w].key].plan = context[w].plan
                   /\ Cardinality(pgsp_hash') <= pgsp_max
                   /\ Cardinality(pgsp_hash) >= pgsp_max => dealloc' > dealloc]_vars

\* The store was full with eleven entries and the insertion of the twelfth
\* query has ended: one eviction run has removed ten, the new query is in.
StoreFullWitness ==
    /\ pgsp_max = LargeMax
    /\ dealloc = 1
    /\ Cardinality(pgsp_hash) = 2
    /\ pc[ScenarioBackend] = "returned_planned"
    /\ req[ScenarioBackend].key = Query(LargeMax + 1)
    /\ Query(LargeMax + 1) \in pgsp_hash
    /\ entries[Query(LargeMax + 1)].plan # InvalidDsaPointer

(***************************************************************************)
(* The requests the planner hook does not handle.                          *)
(***************************************************************************)
\* The step of a request that goes to the fallback label: the hook is left
\* with the plan of the host planner before any key is built.
BypassedRequest(w) == pc[w] = "idle" /\ pc'[w] = "returned_planned"

RecordsRelation(key, rel) ==
    /\ \E i \in 1..entries[key].num_rels : entries[key].rels[i] = rel
    /\ key \in pgsp_rdepend[RdependKey(key.dbid, RELOID, rel)]

\* C38: for every entry that holds a plan, the dependency arrays of the
\* entry, and the reverse index, include every relation that the plan
\* actually stored in the entry references; also after a second insertion
\* for the same key has replaced the arrays.
DependenciesCoverStoredPlan ==
    \A key \in pgsp_hash :
       entries[key].plan # InvalidDsaPointer
          => \A i \in 1..Len(PlannedStmt(entries[key].plan).rtable) :
                RecordsRelation(key, PlannedStmt(entries[key].plan).rtable[i])

(***************************************************************************)
(* The handles of an entry and of a staging context.                       *)
(***************************************************************************)
\* A handle is null exactly when its size field is 0.
HandlesMatchSizes(x) ==
    /\ x.plan = InvalidDsaPointer <=> x.len = 0
    /\ x.rels = <<>> <=> x.num_rels = 0
    /\ x.rdeps = <<>> <=> x.num_rdeps = 0

\* pgsp_entry_alloc leaves every handle with one owner: what the staging
\* context of backend w held has been moved to the entry or freed, the
\* context holds no handle any more, and the bytes given back are those of
\* the handles that no entry and no context holds afterwards.
OwnedOnceAfterInsertion(w) ==
    \A custom_cost \in CustomCosts :
       LET r == EntryAllocResult(SharedState, req[w].key, context[w],
                                 req[w].plantime, custom_cost,
                                 PlannedStmt(context[w].generic).generic_cost)
       IN /\ r.c.plan = InvalidDsaPointer /\ r.c.len = 0
          /\ r.c.rels = <<>> /\ r.c.num_rels = 0
          /\ r.c.rdeps = <<>> /\ r.c.num_rdeps = 0
          /\ \A k \in r.s.pgsp_hash : HandlesMatchSizes(r.s.entries[k])
          /\ r.s.alloced_size = SumBytes(r.s.entries, r.s.pgsp_hash)
                                + SumBytes(context, Backends \ {w})

\* C39: entry well-formedness.  In every state, for every entry of the
\* store, the plan handle is null exactly when len is 0, the rels handle
\* exactly when num_rels is 0 and the rdeps handle exactly when num_rdeps is
\* 0; no handle is freed twice and none is held by an entry and by a staging
\* context at once.
EntryWellFormed ==
    /\ \A k \in pgsp_hash : HandlesMatchSizes(entries[k])
    /\ \A w \in Backends : HandlesMatchSizes(context[w])
    /\ \A w \in Backends : pc[w] = "entry_alloc" => OwnedOnceAfterInsertion(w)

\* The store holds a discarded entry that keeps its arrays and an entry with
\* a plan, and an insertion for a key that is present, with a plan and both
\* arrays staged, is about to run pgsp_entry_alloc.
EntryWellFormedWitness ==
    /\ \E k \in pgsp_hash : entries[k].plan = InvalidDsaPointer
                            /\ entries[k].num_rels > 0
    /\ \E k \in pgsp_hash : entries[k].plan # InvalidDsaPointer
    /\ \E w \in Backends : /\ pc[w] = "entry_alloc"
                           /\ req[w].key \in pgsp_hash
                           /\ context[w].num_rels > 0
                           /\ context[w].num_rdeps > 0

(***************************************************************************)
(* The lock hierarchy.                                                     *)
(***************************************************************************)
\* The fields of an entry that hold a handle, and discard.
HandleFields(e) == <<e.plan, e.len, e.rels, e.num_rels, e.rdeps, e.num_rdeps, e.discard>>

\* The step writes the store: an entry is created or removed, or a handle
\* field of an entry is assigned.
WritesHandles ==
    \/ pgsp_hash' # pgsp_hash
    \/ \E k \in DOMAIN entries : HandleFields(entries'[k]) # HandleFields(entries[k])

\* The step of backend w starts with a request of pgsp->lock in shared mode:
\* the lookup of the planner hook, the re-check, the UNLOCK pass.
RequestsShared(w) ==
    \/ pc[w] = "idle" /\ pc'[w] \in {"release", "exec_locks"}
    \/ pc[w] = "exec_locks" /\ pc'[w] # "exec_locks"
    \/ UnlockStep(w)

\* C40: lock hierarchy.  Registrations and unregistrations in the reverse
\* index are made under an exclusive hold of pgsp->lock (no backend holds it
\* in shared mode, the writer included, when the step is taken); the find
\* of the UNLOCK pass is made by a backend that holds the lock in shared
\* mode; a backend that requests the lock does not hold it already; and the
\* handle fields of the entries (plan, rels, rdeps, discard) are modified
\* only under an exclusive hold.
LockHierarchy ==
    [][/\ pgsp_rdepend' # pgsp_rdepend => lock_shared = {}
       /\ WritesHandles => lock_shared = {}
       /\ \A w \in Backends :
             /\ UnlockStep(w) => w \in lock_shared'
             /\ RequestsShared(w) => w \notin lock_shared]_vars

\* A statement of the LOCK class has discarded a plan under the exclusive
\* lock and holds the lock in shared mode after its UNLOCK pass, while the
\* entry keeps its registrations in the reverse index.
LockHierarchyWitness ==
    \E w \in Backends :
       /\ pc[w] = "utility_exec"
       /\ util[w].kind = PGSP_DISCARD_AND_LOCK
       /\ w \in lock_shared
       /\ \E k \in pgsp_hash :
             /\ entries[k].discard > 0
             /\ entries[k].plan = InvalidDsaPointer
             /\ \E rkey \in RdependKeys : k \in pgsp_rdepend[rkey]

====
